---- MODULE Spec2Model ----
(***************************************************************************)
(* A model of climb-it: the Mountain Project area crawler                  *)
(* (jobs/services/crag_sync.py over jobs/clients/mountain_project.py), the  *)
(* legacy recursive crawler (crawler/crawler.py), the precipitation ingest *)
(* (jobs/services/weather_sync.py), the safety calculator                  *)
(* (jobs/services/safety_calculator.py) and the API forecast loop          *)
(* (api/routers/crags.py).                                                  *)
(*                                                                         *)
(* Optional values (Python None, SQL NULL) are sequences: <<>> is None and *)
(* <<v>> is the value v.  Precipitation is held in hundredths of a         *)
(* millimetre, the scale of the DECIMAL(5,2) column.                       *)
(***************************************************************************)
EXTENDS Integers, Sequences, FiniteSets, TLC

VARIABLES
    prog,           \* which program of the repository is running
    guide,          \* the catalog: state urls listed on the route guide page
    areas,          \* table ods_areas: a set of rows
    pages,          \* the catalog: url id -> <<>> (not yet seen) or <<page>>
    pc,             \* position of the running crawl job
    runs,           \* number of crawl runs started so far (also the clock)
    max_areas,      \* argument of the sync_all in progress
    clean,          \* every run so far: sync_all, no budget, nothing failed
    visited,        \* MountainProjectScraper._visited_urls
    fetched,        \* per scraper instance: url -> number of fetch_page calls
    already,        \* already_scraped, the snapshot taken by sync_all
    states,         \* state_urls returned by get_all_state_urls
    sidx,           \* index of the state the for loop of sync_all is at
    queue,          \* the deque of _process_state
    stats,          \* CragSyncService.stats
    failed_urls,    \* sync_failed: urls still to retry
    faults,         \* number of injected failures so far
    snap,           \* the table at the end of the first run
    logs,           \* what the running command has logged: failed fetches and upserts
    found,          \* MountainProjectCrawler.found
    stack,          \* call stack of MountainProjectCrawler.crawl
    rendered,       \* url -> number of _render_page calls
    call,           \* last function called directly: arguments, outcome
    total_7_days_mm,\* argument of _apply_rules
    days_since_rain,\* argument of _apply_rules
    status,         \* value returned by _apply_rules, <<>> before the call
    precip,         \* table ods_precipitation: a set of rows
    wstats,         \* WeatherSyncService.stats
    written,        \* (area, day) -> the values of the last upsert issued for it
    cstats,         \* SafetyCalculator.stats
    session,        \* calculate_all: crags still to process and pending updates
    provider,       \* the daily precipitation the forecast provider reports
    response,       \* the response of the last forecast request
    scraper,        \* MountainProjectScraper: _browser, _context, _request_count,
                    \* and the browsers launched, contexts created and browsers crashed
    fetch,          \* the fetch_page call in progress or just ended, <<>> before any
    link,           \* a raw link handed to the url normalizers
    keys,           \* what the normalizers return for it, applied once and twice
    writes          \* the _upsert_area writes a run issues for one url

vars == <<prog, guide, areas, pages, pc, runs, max_areas, clean, visited,
          fetched, already, states, sidx, queue, stats, failed_urls, faults, snap,
          logs, found, stack, rendered, call, total_7_days_mm, days_since_rain,
          status, precip, wstats, written, cstats, session, provider, response,
          scraper, fetch, link, keys, writes>>

crawlVars == <<pc, runs, max_areas, clean, visited, fetched, already, states,
               sidx, queue, stats, failed_urls, faults, snap, logs>>
unitVars == <<scraper, fetch, link, keys, writes>>
legacyVars == <<found, stack, rendered>>
safetyVars == <<total_7_days_mm, days_since_rain, status, precip, wstats,
                written, cstats, session, provider, response>>

(***************************************************************************)
(* Bounds of the model.                                                    *)
(***************************************************************************)
MaxRequests == 52   \* page loads counted after which no fetch_page is called
MaxPath == 6        \* pieces in the path of a raw link
MaxApplications == 2 \* times a normalizer is applied to its own result
MaxDeliveries == 2  \* times one write is delivered
MaxNesting == 4     \* nodes in a nested hierarchy dict
batch_size == 2     \* Settings.batch_size of the OpenBeta sync (100 by default)
NumUrls == 3        \* area pages of the catalog
MaxLinks == 2       \* child links on one page
MaxRuns == 2        \* crawl runs in one behaviour
MaxFaults == 1      \* injected failures in one behaviour
MaxBudget == 1      \* largest max_areas argument tried
NumStates == 2      \* states listed on the route guide page
NumParents == 2     \* areas named as parent by direct upsert calls
IngestDays == 1     \* the days argument of the weather ingest
MaxIngests == 3     \* crags handled by the weather ingest in one behaviour
MaxForecastDays == 4 \* largest number of forecast days asked for
MaxTotal == 2600    \* largest 7-day total tried, in hundredths of a millimetre
MaxDays == 5        \* largest number of days since rain tried

None == <<>>
Some(v) == <<v>>
IsNone(o) == o = <<>>
Val(o) == o[1]

UrlIds == 1..NumUrls

(***************************************************************************)
(* URLs.  A link is the area it names, whether it is written absolute or   *)
(* site-relative, and its number of trailing slashes.                      *)
(***************************************************************************)
Url(abs, id, slash) == [abs |-> abs, id |-> id, slash |-> slash]

\* the href of area i as a page writes it; pages differ in how they write
\* their hrefs: absolute, absolute with a trailing slash, or site-relative
Styles == <<"absolute", "absolute_slash", "relative">>
StyleOf(p) == Styles[(p % 3) + 1]
Href(i, st) == Url(st # "relative", i, IF st = "absolute_slash" THEN 1 ELSE 0)

_normalize_url(url) == Url(TRUE, url.id, 0)

Canon(i) == Url(TRUE, i, 0)

\* uuid5 over the url string: one id per distinct string
generate_deterministic_uuid(url) ==
    1 + (url.id * 4) + (IF url.abs THEN 2 ELSE 0) + (IF url.slash > 0 THEN 1 ELSE 0)

(***************************************************************************)
(* Table ods_areas and the statements that write it.                       *)
(***************************************************************************)
\* the text of the link to area i, and the <h1> of its own page
LinkText(i) == [src |-> "link", of |-> i]
H1Text(i) == [src |-> "h1", of |-> i]

\* the coordinates of the GPS row of page i
Lat(i) == 30 + i
Lon(i) == 0 - (100 + i)

RowsWithId(tbl, id) == {r \in tbl : r.id = id}
RowsWithUrl(tbl, url) == {r \in tbl : r.url = url}

\* FOREIGN KEY parent_id -> ods_areas.id (a row may name itself)
ForeignKeyOk(tbl, record) ==
    \/ IsNone(record.parent_id)
    \/ Val(record.parent_id) = record.id
    \/ RowsWithId(tbl, Val(record.parent_id)) # {}

\* variant: a plain INSERT, which a duplicate key makes fail
InsertOnly(tbl, record) ==
    IF RowsWithId(tbl, record.id) # {} \/ RowsWithUrl(tbl, record.url) # {}
      THEN [tbl |-> tbl, error |-> "DuplicateKeyError"]
    ELSE IF ~ForeignKeyOk(tbl, record)
      THEN [tbl |-> tbl, error |-> "ForeignKeyError"]
    ELSE [tbl |-> tbl \cup {record}, error |-> "none"]
\* variant: safety_status is in the list of the columns to update
InsertOnDuplicateKeyUpdateStatus(tbl, record) ==
    LET hit == IF RowsWithId(tbl, record.id) # {}
                 THEN RowsWithId(tbl, record.id)
                 ELSE RowsWithUrl(tbl, record.url)
    IN  IF ~ForeignKeyOk(tbl, record)
          THEN [tbl |-> tbl, error |-> "ForeignKeyError"]
        ELSE IF hit = {}
          THEN [tbl |-> tbl \cup {record}, error |-> "none"]
        ELSE LET old == CHOOSE r \in hit : TRUE
             IN  [tbl |-> (tbl \ {old}) \cup {[record EXCEPT !.id = old.id,
                                                             !.url = old.url]},
                  error |-> "none"]
\* INSERT ... ON DUPLICATE KEY UPDATE name, parent_id, latitude, longitude,
\* scraped_at, scrape_failed: id is the primary key and url is UNIQUE
InsertOnDuplicateKeyUpdate(tbl, record) ==
    LET hit == IF RowsWithId(tbl, record.id) # {}
                 THEN RowsWithId(tbl, record.id)
                 ELSE RowsWithUrl(tbl, record.url)
    IN  IF ~ForeignKeyOk(tbl, record)
          THEN [tbl |-> tbl, error |-> "ForeignKeyError"]
        ELSE IF hit = {}
          THEN [tbl |-> tbl \cup {record}, error |-> "none"]
        ELSE LET old == CHOOSE r \in hit : TRUE
                 new == [old EXCEPT !.name = record.name,
                                    !.parent_id = record.parent_id,
                                    !.latitude = record.latitude,
                                    !.longitude = record.longitude,
                                    !.scraped_at = record.scraped_at,
                                    !.scrape_failed = record.scrape_failed]
             IN  [tbl |-> (tbl \ {old}) \cup {new}, error |-> "none"]

\* session.execute(upsert_stmt); session.commit(): the statement, or the
\* failure of the connection when fault is set
Execute(tbl, record, fault) ==
    IF fault THEN [tbl |-> tbl, error |-> "OperationalError"]
             ELSE InsertOnDuplicateKeyUpdate(tbl, record)

\* CragSyncService._upsert_area: the table after the call, the value returned
\* and the error logged; every exception is caught and reported as False
_upsert_area(tbl, area_id, name, url, parent_id, latitude, longitude, now, fault) ==
    LET record == [id |-> area_id, url |-> url, name |-> name,
                   parent_id |-> parent_id,
                   latitude |-> latitude, longitude |-> longitude,
                   scraped_at |-> Some(now), scrape_failed |-> FALSE,
                   safety_status |->
                       IF ~IsNone(latitude) /\ ~IsNone(longitude)
                         THEN Some("UNKNOWN") ELSE None]
        res == Execute(tbl, record, fault)
    IN  IF res.error = "none"
          THEN [tbl |-> res.tbl, ret |-> TRUE, raised |-> FALSE, logged |-> "none"]
          ELSE [tbl |-> tbl, ret |-> FALSE, raised |-> FALSE, logged |-> res.error]

\* CragSyncService._mark_scrape_failed: UPDATE ... SET scrape_failed = TRUE
_mark_scrape_failed(tbl, url) ==
    LET id == generate_deterministic_uuid(url)
    IN  {IF r.id = id THEN [r EXCEPT !.scrape_failed = TRUE] ELSE r : r \in tbl}

\* CragSyncService._get_urls_to_skip
_get_urls_to_skip(tbl) ==
    {r.url : r \in {x \in tbl : ~IsNone(x.scraped_at) /\ ~x.scrape_failed}}

(***************************************************************************)
(* The catalog: what the site serves for a page.                           *)
(***************************************************************************)
\* a page lists up to MaxLinks other areas, each once
LinkSeqs(i) ==
    {q \in UNION {[1..n -> UrlIds \ {i}] : n \in 0..MaxLinks} :
        \A a, b \in 1..Len(q) : a # b => q[a] # q[b]}
Pages(i) == [links : LinkSeqs(i), coords : BOOLEAN]

\* what a first fetch of page i may find; later fetches find the same
PageChoices(i) == IF IsNone(pages[i]) THEN Pages(i) ELSE {Val(pages[i])}

(***************************************************************************)
(* MountainProjectScraper.                                                 *)
(***************************************************************************)
\* variant: a scraper that keeps no memory of its visits
was_visited_never(vis, url) == FALSE
was_visited(vis, url) == _normalize_url(url) \in vis
mark_visited(vis, url) == vis \cup {_normalize_url(url)}

\* the child links of a page, in page order, without the links seen earlier
\* on the page and without the visited ones
RECURSIVE ChildLinks(_, _, _)
ChildLinks(hrefs, vis, seen) ==
    IF hrefs = <<>> THEN <<>>
    ELSE LET child_url == _normalize_url(Head(hrefs))
         IN  IF child_url \in seen \/ was_visited(vis, child_url)
               THEN ChildLinks(Tail(hrefs), vis, seen)
               ELSE <<[url |-> child_url, name |-> LinkText(Head(hrefs).id)]>>
                    \o ChildLinks(Tail(hrefs), vis, seen \cup {child_url})

\* get_area_with_children(area_url) on a scraper whose visited set is vis.
\* outcome is what the page load and the parsing do: "ok", "fetch_error"
\* (fetch_page raises) or "parse_error" (an exception leaves the method).
get_area_with_children(area_url, vis, outcome, page) ==
    LET url == _normalize_url(area_url)
        vis2 == mark_visited(vis, url)
        hrefs == [k \in 1..Len(page.links) |-> Href(page.links[k], StyleOf(url.id))]
    IN  IF was_visited(vis, url)
          THEN [fetch |-> FALSE, raised |-> FALSE, vis |-> vis,
                area |-> None, children |-> <<>>]
        ELSE IF outcome = "fetch_error"
          THEN [fetch |-> TRUE, raised |-> FALSE, vis |-> vis2,
                area |-> None, children |-> <<>>]
        ELSE IF outcome = "parse_error"
          THEN [fetch |-> TRUE, raised |-> TRUE, vis |-> vis2,
                area |-> None, children |-> <<>>]
        ELSE [fetch |-> TRUE, raised |-> FALSE, vis |-> vis2,
              area |-> IF page.coords
                         THEN Some([name |-> H1Text(url.id),
                                    latitude |-> Lat(url.id),
                                    longitude |-> Lon(url.id), url |-> url])
                         ELSE None,
              children |-> ChildLinks(hrefs, vis2, {})]

(***************************************************************************)
(* CragSyncService.                                                        *)
(***************************************************************************)
max_depth == 10
\* a site where area 5 is two links below the state through area 2 and
\* three links below it through areas 3 and 4
Diamond == <<(<<2, 3>>), (<<5>>), (<<4>>), (<<5>>), (<<>>)>>
\* a site of three areas with links to themselves, to each other in both
\* directions and from several pages to the same area
Knot == <<(<<1, 2, 3>>), (<<1, 3, 2>>), (<<3, 2, 1>>)>>
\* a chain of pages, each linking to the next, that goes one link below the
\* deepest page the traversal fetches
ChainLen == max_depth + 2
RouteGuide == 0         \* key of AREAS_URL in the fetch counters

Outcomes == {"ok", "fetch_error", "parse_error"}
Cost(outcome, bad) == (IF outcome = "ok" THEN 0 ELSE 1) + (IF bad = 0 THEN 0 ELSE 1)

ZeroStats == [states_processed |-> 0, areas_processed |-> 0, errors |-> 0]
\* the crawl that runs while the API reads is followed one failure and one
\* budget further than the crawl alone
FaultLimit == IF prog = "breadcrumb" THEN MaxFaults + 1 ELSE MaxFaults
BudgetLimit == IF prog = "breadcrumb" THEN MaxBudget + 1 ELSE MaxBudget
Budgets == {None} \cup {Some(n) : n \in 0..BudgetLimit}
Effective(m) == ~IsNone(m) /\ Val(m) # 0

\* "max_areas and self.stats['areas_processed'] >= max_areas"
BudgetReached ==
    Effective(max_areas) /\ stats.areas_processed >= Val(max_areas)

Count(f, k) == [f EXCEPT ![k] = IF @ < 2 THEN @ + 1 ELSE @]

\* variant: the queue's parent is stored as it is
actual_parent_id_unguarded(area_id, parent_id) == Some(parent_id)
\* "None if area_id == parent_id else parent_id"
actual_parent_id(area_id, parent_id) ==
    IF area_id = parent_id THEN None ELSE Some(parent_id)

\* a series of _upsert_area calls, the bad-th of which fails in the database
RECURSIVE ApplyUpserts(_, _, _, _)
ApplyUpserts(tbl, reqs, k, bad) ==
    IF k > Len(reqs) THEN tbl
    ELSE \* the table and the k-th request are computed once
         CHOOSE t \in
             {ApplyUpserts(
                  _upsert_area(before, q.area_id, q.name, q.url, q.parent_id,
                               q.latitude, q.longitude, runs, k = bad).tbl,
                  reqs, k + 1, bad) : before \in {tbl}, q \in {reqs[k]}} : TRUE

Request(area_id, name, url, parent_id, latitude, longitude) ==
    [area_id |-> area_id, name |-> name, url |-> url, parent_id |-> parent_id,
     latitude |-> latitude, longitude |-> longitude]

\* the jobs CLI runs calculate-safety, alone or between crawl commands
Calculating == prog \in {"safety", "recrawl"}

\* calculate_all is inside its try block
SessionOpen == ~IsNone(session) /\ Val(session).open

\* the jobs CLI runs its crawl commands, over a catalog found page by page,
\* over the chain, the diamond or the knot of pages, between runs of
\* calculate-safety, or while the API reads the table
Crawling == prog \in {"jobs", "chain", "diamond", "knot", "recrawl", "breadcrumb"}

\* the last url id of the catalog
LastUrl ==
    IF prog = "chain" THEN ChainLen
    ELSE IF prog = "diamond" THEN Len(Diamond) ELSE NumUrls

\* variant: the children are put at the front of the deque
append_left(q, entries) == entries \o q
\* queue.append for the children of a page, in page order
append(q, entries) == q \o entries

\* the state of a new CragSyncService and its scraper
NoFetches == [k \in 0..LastUrl |-> 0]

\* the log of a command that has logged nothing yet
NothingLogged ==
    [area_fetch_failed |-> {}, area_upsert_failed |-> 0, area_failed |-> {}]

\* the urls get_area_with_children warns about: fetch_page raised
FetchFailed(r, outcome, url) ==
    IF r.fetch /\ outcome = "fetch_error" THEN {_normalize_url(url)} ELSE {}

\* the log after a step that warned about the urls and whose upsert at
\* position bad of its requests (0: none) failed
Logged(l, urls, bad) ==
    [area_fetch_failed |-> l.area_fetch_failed \cup urls,
     area_upsert_failed |-> l.area_upsert_failed + (IF bad > 0 THEN 1 ELSE 0),
     area_failed |-> l.area_failed]

\* sync_all up to the for loop, on a new service (cli.py opens one per
\* command): the snapshot of the urls to skip and the state urls
StartSyncAll ==
    /\ Crawling /\ pc = "idle" /\ runs < MaxRuns /\ ~SessionOpen
    /\ \E budget \in Budgets, outcome \in {"ok", "fetch_error"} :
        /\ faults + Cost(outcome, 0) <= FaultLimit
        /\ faults' = faults + Cost(outcome, 0)
        /\ runs' = runs + 1
        /\ max_areas' = budget
        /\ clean' = (clean /\ outcome = "ok" /\ ~Effective(budget))
        /\ fetched' = Count(NoFetches, RouteGuide)
        /\ already' = _get_urls_to_skip(areas)
        /\ logs' = NothingLogged
        /\ IF outcome = "ok"
             THEN /\ states' = [k \in 1..Len(guide) |->
                                   [name |-> LinkText(guide[k]),
                                    url |-> _normalize_url(
                                               Href(guide[k], StyleOf(RouteGuide)))]]
                  /\ pc' = "states"
             ELSE /\ states' = <<>>
                  /\ pc' = "raised"
    /\ UNCHANGED <<prog, unitVars, guide, areas, pages, visited, sidx, queue, stats,
                   failed_urls, snap, legacyVars, call, safetyVars>>

\* _process_state up to the while loop: the state row and the first entry
BeginState ==
    /\ Crawling /\ pc = "states"
    /\ sidx <= Len(states) /\ ~BudgetReached
    /\ \E bad \in 0..1 :
        LET state_url == states[sidx].url
            state_id == generate_deterministic_uuid(state_url)
            reqs == <<Request(state_id, states[sidx].name, state_url,
                              None, None, None)>>
        IN  /\ faults + Cost("ok", bad) <= FaultLimit
            /\ faults' = faults + Cost("ok", bad)
            /\ clean' = (clean /\ bad = 0)
            /\ areas' = ApplyUpserts(areas, reqs, 1, bad)
            /\ logs' = Logged(logs, {}, bad)
            /\ queue' = <<[url |-> state_url, parent_id |-> state_id, depth |-> 0]>>
            /\ pc' = "queue"
    /\ UNCHANGED <<prog, unitVars, guide, pages, runs, max_areas, visited, fetched, already,
                   states, sidx, stats, failed_urls, snap, legacyVars, call,
                   safetyVars>>

\* the while loop ends: the queue is empty or the budget is reached
LeaveState ==
    /\ Crawling /\ pc = "queue"
    /\ queue = <<>> \/ BudgetReached
    /\ stats' = [stats EXCEPT !.states_processed = @ + 1]
    /\ sidx' = sidx + 1
    /\ queue' = <<>>
    /\ pc' = "states"
    /\ UNCHANGED <<prog, unitVars, guide, areas, pages, runs, max_areas, clean, visited,
                   fetched, already, states, failed_urls, faults, snap, logs, legacyVars,
                   call, safetyVars>>

\* one iteration that ends at a continue: too deep, or scraped in an earlier run
SkipEntry ==
    /\ Crawling /\ pc = "queue"
    /\ queue # <<>> /\ ~BudgetReached
    /\ LET e == Head(queue)
       IN  /\ e.depth > max_depth \/ _normalize_url(e.url) \in already
           /\ queue' = Tail(queue)
    /\ UNCHANGED <<prog, unitVars, guide, areas, pages, pc, runs, max_areas, clean, visited,
                   fetched, already, states, sidx, stats, failed_urls, faults, snap, logs,
                   legacyVars, call, safetyVars>>

\* one iteration that reaches the try block: the page is fetched, the area and
\* its children are upserted and the children are queued
VisitEntry ==
    /\ Crawling /\ pc = "queue"
    /\ queue # <<>> /\ ~BudgetReached
    /\ LET e == Head(queue)
       IN  /\ ~(e.depth > max_depth)
           /\ _normalize_url(e.url) \notin already
           /\ \E outcome \in Outcomes, page \in PageChoices(e.url.id),
                 bad \in 0..(MaxLinks + 1) :
                LET r == get_area_with_children(e.url, visited, outcome, page)
                    area_id == generate_deterministic_uuid(e.url)
                    has_area == ~IsNone(r.area)
                    own == IF has_area
                             THEN <<Request(area_id, Val(r.area).name, e.url,
                                            actual_parent_id(area_id, e.parent_id),
                                            Some(Val(r.area).latitude),
                                            Some(Val(r.area).longitude))>>
                             ELSE <<>>
                    next_parent == IF has_area THEN area_id ELSE e.parent_id
                    kids == [k \in 1..Len(r.children) |->
                               Request(generate_deterministic_uuid(r.children[k].url),
                                       r.children[k].name, r.children[k].url,
                                       Some(next_parent), None, None)]
                    entries == [k \in 1..Len(r.children) |->
                                  [url |-> r.children[k].url,
                                   parent_id |-> next_parent,
                                   depth |-> e.depth + 1]]
                    reqs == own \o kids
                IN  /\ r.fetch \/ outcome = "ok"
                    /\ bad <= Len(reqs)
                    /\ (~r.fetch \/ outcome # "ok") =>
                           page = CHOOSE p \in PageChoices(e.url.id) : TRUE
                    /\ faults + Cost(outcome, bad) <= FaultLimit
                    /\ faults' = faults + Cost(outcome, bad)
                    /\ clean' = (clean /\ Cost(outcome, bad) = 0)
                    /\ visited' = r.vis
                    /\ fetched' = IF r.fetch THEN Count(fetched, e.url.id) ELSE fetched
                    /\ pages' = IF r.fetch /\ outcome = "ok"
                                  THEN [pages EXCEPT ![e.url.id] = Some(page)]
                                  ELSE pages
                    /\ IF r.raised
                         THEN /\ areas' = _mark_scrape_failed(areas, e.url)
                              /\ stats' = [stats EXCEPT !.errors = @ + 1]
                              /\ queue' = Tail(queue)
                              /\ logs' = [logs EXCEPT !.area_failed = @ \cup {e.url}]
                         ELSE /\ areas' = ApplyUpserts(areas, reqs, 1, bad)
                              /\ logs' = Logged(logs, FetchFailed(r, outcome, e.url), bad)
                              /\ stats' = [stats EXCEPT !.areas_processed = @ + 1]
                              /\ queue' = append(Tail(queue), entries)
    /\ UNCHANGED <<prog, unitVars, guide, pc, runs, max_areas, already, states, sidx,
                   failed_urls, snap, legacyVars, call, safetyVars>>

\* the service is closed when its command ends
CloseService ==
    /\ visited' = {} /\ fetched' = NoFetches /\ already' = {} /\ states' = <<>>
    /\ sidx' = 1 /\ queue' = <<>> /\ stats' = ZeroStats /\ max_areas' = None
    /\ failed_urls' = {}

\* sync_all returns (no state is left or the budget is reached) or has
\* raised, and the command ends
FinishSyncAll ==
    /\ Crawling
    /\ \/ pc = "states" /\ (sidx > Len(states) \/ BudgetReached)
       \/ pc = "raised"
    /\ pc' = "idle"
    /\ snap' = IF runs = 1 THEN Some(areas) ELSE snap
    /\ CloseService
    /\ UNCHANGED <<prog, unitVars, guide, areas, pages, runs, clean, faults, logs,
                   legacyVars, call, safetyVars>>

\* sync_failed up to the for loop, on a new service: the urls of the rows
\* marked failed
StartSyncFailed ==
    /\ Crawling /\ pc = "idle" /\ runs < MaxRuns /\ runs > 0 /\ ~SessionOpen
    /\ runs' = runs + 1
    /\ clean' = FALSE
    /\ failed_urls' = {r.url : r \in {x \in areas : x.scrape_failed}}
    /\ logs' = NothingLogged
    /\ pc' = "retry"
    /\ UNCHANGED <<prog, unitVars, guide, areas, pages, max_areas, visited, fetched, already,
                   states, sidx, queue, stats, faults, snap, legacyVars, call,
                   safetyVars>>

\* one iteration of the for loop of sync_failed
RetryStep ==
    /\ Crawling /\ pc = "retry"
    /\ \E url \in failed_urls :
        \E outcome \in Outcomes, page \in PageChoices(url.id), bad \in 0..1 :
            LET r == get_area_with_children(url, visited, outcome, page)
                reqs == IF ~r.raised /\ ~IsNone(r.area)
                          THEN <<Request(generate_deterministic_uuid(url),
                                         Val(r.area).name, url, None,
                                         Some(Val(r.area).latitude),
                                         Some(Val(r.area).longitude))>>
                          ELSE <<>>
            IN  /\ r.fetch \/ outcome = "ok"
                /\ bad <= Len(reqs)
                /\ (~r.fetch \/ outcome # "ok") =>
                       page = CHOOSE p \in PageChoices(url.id) : TRUE
                /\ faults + Cost(outcome, bad) <= FaultLimit
                /\ faults' = faults + Cost(outcome, bad)
                /\ visited' = r.vis
                /\ fetched' = IF r.fetch THEN Count(fetched, url.id) ELSE fetched
                /\ pages' = IF r.fetch /\ outcome = "ok"
                              THEN [pages EXCEPT ![url.id] = Some(page)]
                              ELSE pages
                /\ areas' = ApplyUpserts(areas, reqs, 1, bad)
                /\ logs' = Logged(logs, FetchFailed(r, outcome, url), bad)
                /\ failed_urls' = failed_urls \ {url}
    /\ UNCHANGED <<prog, unitVars, guide, pc, runs, max_areas, clean, already, states, sidx,
                   queue, stats, snap, legacyVars, call, safetyVars>>

\* sync_failed returns and the command ends
FinishSyncFailed ==
    /\ Crawling /\ pc = "retry" /\ failed_urls = {}
    /\ pc' = "idle"
    /\ CloseService
    /\ UNCHANGED <<prog, unitVars, guide, areas, pages, runs, clean, faults, snap, logs,
                   legacyVars, call, safetyVars>>

(***************************************************************************)
(* The legacy crawler: MountainProjectCrawler.crawl, its recursion held as *)
(* a stack of frames, each with the child links still to follow.           *)
(***************************************************************************)
legacy_max_depth == 5

\* utils.normalize_url: fixed scheme and host, no trailing slash
normalize_url(url) == Url(TRUE, url.id, 0)

\* page_parser.extract_area_links: the absolute area links of the page
extract_area_links(hrefs) == SelectSeq(hrefs, LAMBDA h : h.abs)

\* the links page i holds: the route guide lists the states
PageHrefs(i, page) ==
    IF i = RouteGuide
      THEN [k \in 1..Len(guide) |-> Href(guide[k], StyleOf(i))]
      ELSE [k \in 1..Len(page.links) |-> Href(page.links[k], StyleOf(i))]


\* crawl(url, parent_url, depth) from its first line to the for loop
crawl(url, depth, outcome, page) ==
    LET norm_url == normalize_url(url)
    IN  IF norm_url \in found \/ depth > legacy_max_depth
          THEN [found |-> found, render |-> FALSE, frames |-> <<>>]
        ELSE IF outcome # "ok"
          THEN [found |-> found \cup {norm_url}, render |-> TRUE, frames |-> <<>>]
        ELSE [found |-> found \cup {norm_url}, render |-> TRUE,
              frames |-> <<[url |-> norm_url, depth |-> depth,
                            links |-> extract_area_links(PageHrefs(norm_url.id, page))]>>]

\* run.py: crawler.crawl(start_url)
LegacyStart ==
    /\ prog = "legacy" /\ pc = "idle"
    /\ \E outcome \in {"ok", "fetch_error"} :
        LET c == crawl(Url(TRUE, RouteGuide, 0), 0, outcome,
                       [links |-> <<>>, coords |-> FALSE])
        IN  /\ faults + Cost(outcome, 0) <= FaultLimit
            /\ faults' = faults + Cost(outcome, 0)
            /\ found' = c.found
            /\ rendered' = IF c.render THEN Count(rendered, RouteGuide) ELSE rendered
            /\ stack' = c.frames
    /\ pc' = "crawl"
    /\ UNCHANGED <<prog, unitVars, guide, areas, pages, runs, max_areas, clean, visited,
                   fetched, already, states, sidx, queue, stats, failed_urls, snap, logs,
                   call, safetyVars>>

\* one iteration of the for loop of the innermost call
LegacyFollow ==
    /\ prog = "legacy" /\ pc = "crawl" /\ stack # <<>>
    /\ LET top == stack[Len(stack)]
       IN  /\ top.links # <<>>
           /\ LET norm_link == normalize_url(Head(top.links))
                  rest == [stack EXCEPT ![Len(stack)].links = Tail(@)]
              IN  IF norm_link \in found
                    THEN /\ stack' = rest
                         /\ UNCHANGED <<found, rendered, pages, faults>>
                    ELSE \E outcome \in {"ok", "fetch_error"},
                            page \in PageChoices(norm_link.id) :
                           LET c == crawl(norm_link, top.depth + 1, outcome, page)
                           IN  /\ faults + Cost(outcome, 0) <= FaultLimit
                               /\ (~c.render \/ outcome # "ok") =>
                                      page = CHOOSE p \in PageChoices(norm_link.id) : TRUE
                               /\ faults' = faults + Cost(outcome, 0)
                               /\ found' = c.found
                               /\ rendered' = IF c.render
                                                THEN Count(rendered, norm_link.id)
                                                ELSE rendered
                               /\ pages' = IF c.render /\ outcome = "ok"
                                             THEN [pages EXCEPT ![norm_link.id] = Some(page)]
                                             ELSE pages
                               /\ stack' = rest \o c.frames
    /\ UNCHANGED <<prog, unitVars, guide, areas, pc, runs, max_areas, clean, visited,
                   fetched, already, states, sidx, queue, stats, failed_urls, snap, logs,
                   call, safetyVars>>

\* the innermost call returns
LegacyReturn ==
    /\ prog = "legacy" /\ pc = "crawl" /\ stack # <<>>
    /\ stack[Len(stack)].links = <<>>
    /\ stack' = SubSeq(stack, 1, Len(stack) - 1)
    /\ UNCHANGED <<prog, unitVars, guide, areas, pages, pc, runs, max_areas, clean, visited,
                   fetched, already, states, sidx, queue, stats, failed_urls, faults,
                   snap, logs, found, rendered, call, safetyVars>>

(***************************************************************************)
(* The safety rules.  Precipitation totals are in hundredths of a          *)
(* millimetre.                                                             *)
(***************************************************************************)
\* jobs/config.py
safe_days_threshold == 3
caution_days_threshold == 1
weekly_precip_caution_mm == 1000
weekly_precip_unsafe_mm == 2500

\* api/routers/crags.py
SAFE_DAYS_THRESHOLD == 3
CAUTION_DAYS_THRESHOLD == 1
WEEKLY_PRECIP_CAUTION_MM == 1000
WEEKLY_PRECIP_UNSAFE_MM == 2500

\* jobs/config.py: get_settings(), the Settings with their defaults
get_settings ==
    [safe_days_threshold |-> safe_days_threshold,
     caution_days_threshold |-> caution_days_threshold,
     weekly_precip_caution_mm |-> weekly_precip_caution_mm,
     weekly_precip_unsafe_mm |-> weekly_precip_unsafe_mm]

\* variant: the precipitation rule for CAUTION is tried before the days rule
\* for UNSAFE
_apply_rules_with_reordered(settings, total, days) ==
    IF total >= settings.weekly_precip_unsafe_mm THEN "UNSAFE"
    ELSE IF total >= settings.weekly_precip_caution_mm THEN "CAUTION"
    ELSE IF ~IsNone(days) /\ Val(days) <= settings.caution_days_threshold THEN "UNSAFE"
    ELSE IF ~IsNone(days) /\ Val(days) <= settings.safe_days_threshold THEN "CAUTION"
    ELSE "SAFE"
\* SafetyCalculator._apply_rules, reading self.settings
_apply_rules_with(settings, total, days) ==
    IF total >= settings.weekly_precip_unsafe_mm THEN "UNSAFE"
    ELSE IF ~IsNone(days) /\ Val(days) <= settings.caution_days_threshold THEN "UNSAFE"
    ELSE IF total >= settings.weekly_precip_caution_mm THEN "CAUTION"
    ELSE IF ~IsNone(days) /\ Val(days) <= settings.safe_days_threshold THEN "CAUTION"
    ELSE "SAFE"

\* variant: the thresholds as the docstring words them, "(>25mm)", "(>10mm)"
_apply_rules_strict(total, days) ==
    IF total > weekly_precip_unsafe_mm THEN "UNSAFE"
    ELSE IF ~IsNone(days) /\ Val(days) <= caution_days_threshold THEN "UNSAFE"
    ELSE IF total > weekly_precip_caution_mm THEN "CAUTION"
    ELSE IF ~IsNone(days) /\ Val(days) <= safe_days_threshold THEN "CAUTION"
    ELSE "SAFE"
\* SafetyCalculator._apply_rules of a calculator built with get_settings()
_apply_rules(total, days) == _apply_rules_with(get_settings, total, days)

\* variant: only the days since rain decide
calculate_safety_status_by_days(total, days) ==
    IF ~IsNone(days) /\ Val(days) <= CAUTION_DAYS_THRESHOLD THEN "UNSAFE"
    ELSE IF ~IsNone(days) /\ Val(days) <= SAFE_DAYS_THRESHOLD THEN "CAUTION"
    ELSE "SAFE"
\* api/routers/crags.py: calculate_safety_status
calculate_safety_status(total, days) ==
    IF total >= WEEKLY_PRECIP_UNSAFE_MM THEN "UNSAFE"
    ELSE IF ~IsNone(days) /\ Val(days) <= CAUTION_DAYS_THRESHOLD THEN "UNSAFE"
    ELSE IF total >= WEEKLY_PRECIP_CAUTION_MM THEN "CAUTION"
    ELSE IF ~IsNone(days) /\ Val(days) <= SAFE_DAYS_THRESHOLD THEN "CAUTION"
    ELSE "SAFE"

\* the statistics of a new WeatherSyncService and a new SafetyCalculator
ZeroWeatherStats ==
    [crags_processed |-> 0, weather_records_created |-> 0, errors |-> 0]
ZeroSafetyStats ==
    [crags_processed |-> 0, status_safe |-> 0, status_caution |-> 0,
     status_unsafe |-> 0, no_data |-> 0]

\* days are counted from today, which is day 0; the ingest asks for the days
\* from end_date - days to end_date, where end_date is 5 days ago
Today == 0
IngestDates == (Today - 5 - IngestDays)..(Today - 5)
Keys == {generate_deterministic_uuid(Canon(i)) : i \in UrlIds} \X IngestDates
NothingWritten == [k \in Keys |-> None]

\* one call of each classifier with the arguments drawn at the start
ApplyRules ==
    /\ prog = "rules" /\ IsNone(status)
    /\ status' = Some([jobs |-> _apply_rules(total_7_days_mm, days_since_rain),
                       api |-> calculate_safety_status(total_7_days_mm,
                                                       days_since_rain)])
    /\ UNCHANGED <<prog, unitVars, guide, areas, pages, crawlVars, legacyVars, call,
                   total_7_days_mm, days_since_rain, precip, wstats, written,
                   cstats, session, provider, response>>

(***************************************************************************)
(* The precipitation ingest: WeatherSyncService.                           *)
(***************************************************************************)
\* a row of ods_areas as the crawl leaves it
AreaRow(i, crag, stored) ==
    [id |-> generate_deterministic_uuid(Canon(i)), url |-> Canon(i),
     name |-> IF crag THEN H1Text(i) ELSE LinkText(i), parent_id |-> None,
     latitude |-> IF crag THEN Some(Lat(i)) ELSE None,
     longitude |-> IF crag THEN Some(Lon(i)) ELSE None,
     scraped_at |-> Some(0), scrape_failed |-> FALSE, safety_status |-> stored]

\* the columns of class Precipitation
PrecipitationColumns ==
    {"area_id", "recorded_at", "precipitation_mm", "temperature_max_c",
     "temperature_min_c"}

\* insert(Precipitation).values(**record).on_duplicate_key_update(...),
\* executed: a key of record that names no column fails the statement
PrecipitationUpsert(tbl, record) ==
    IF ~(DOMAIN record \subseteq PrecipitationColumns)
      THEN [tbl |-> tbl, error |-> "CompileError"]
    ELSE LET hit == {r \in tbl : /\ r.area_id = record.area_id
                                 /\ r.recorded_at = record.recorded_at}
         IN  IF hit = {}
               THEN [tbl |-> tbl \cup {record}, error |-> "none"]
               ELSE LET old == CHOOSE r \in hit : TRUE
                        new == [old EXCEPT
                                  !.precipitation_mm = record.precipitation_mm,
                                  !.temperature_max_c = record.temperature_max_c,
                                  !.temperature_min_c = record.temperature_min_c]
                    IN  [tbl |-> (tbl \ {old}) \cup {new}, error |-> "none"]

\* what get_historical_weather may return: one entry per day asked for
DailyWeather(d, mm, tmax) ==
    [date |-> d, precipitation_mm |-> mm, temperature_max_c |-> tmax,
     temperature_min_c |-> Some(5)]
WeatherData ==
    {[k \in 1..Cardinality(IngestDates) |->
         DailyWeather(Today - 5 - IngestDays + (k - 1), f[k][1], f[k][2])] :
       f \in [1..Cardinality(IngestDates) ->
                {0, 120} \X {None, Some(21)}]}

\* the record _sync_crag_weather builds for one day
WeatherRecord(crag, w) ==
    [crag_id |-> crag.id, recorded_at |-> w.date,
     precipitation_mm |-> w.precipitation_mm,
     temperature_max_c |-> w.temperature_max_c,
     temperature_min_c |-> w.temperature_min_c]

\* the for loop of _sync_crag_weather from its k-th entry: the table, the
\* upserts issued and the count of records, up to the statement that raises
RECURSIVE StoreWeather(_, _, _, _, _, _)
StoreWeather(tbl, log, created, crag, data, k) ==
    IF k > Len(data)
      THEN [tbl |-> tbl, written |-> log, created |-> created, raised |-> FALSE]
      ELSE LET record == WeatherRecord(crag, data[k])
               res == PrecipitationUpsert(tbl, record)
               log2 == [log EXCEPT ![<<crag.id, data[k].date>>] =
                          Some([precipitation_mm |-> data[k].precipitation_mm,
                                temperature_max_c |-> data[k].temperature_max_c,
                                temperature_min_c |-> data[k].temperature_min_c])]
           IN  IF res.error # "none"
                 THEN [tbl |-> tbl, written |-> log2, created |-> created,
                       raised |-> TRUE]
                 ELSE StoreWeather(res.tbl, log2, created + 1, crag, data, k + 1)

\* _sync_crag_weather(session, crag, days): float(None) raises for a row
\* without coordinates, before anything is asked or stored
_sync_crag_weather(tbl, log, created, crag, data) ==
    IF IsNone(crag.latitude) \/ IsNone(crag.longitude)
      THEN [tbl |-> tbl, written |-> log, created |-> created, raised |-> TRUE]
      ELSE StoreWeather(tbl, log, created, crag, data, 1)

\* one iteration of the for loop of WeatherSyncService.sync_all_crags
SyncCragWeather ==
    /\ prog = "weather"
    /\ wstats.crags_processed + wstats.errors < MaxIngests
    /\ \E crag \in areas, data \in WeatherData :
        LET r == _sync_crag_weather(precip, written, wstats.weather_records_created,
                                    crag, data)
        IN  /\ precip' = r.tbl
            /\ written' = r.written
            /\ wstats' = IF r.raised
                           THEN [wstats EXCEPT !.errors = @ + 1,
                                               !.weather_records_created = r.created]
                           ELSE [wstats EXCEPT !.crags_processed = @ + 1,
                                               !.weather_records_created = r.created]
    /\ UNCHANGED <<prog, unitVars, guide, areas, pages, crawlVars, legacyVars, call,
                   total_7_days_mm, days_since_rain, status, cstats, session,
                   provider, response>>

(***************************************************************************)
(* SafetyCalculator.                                                       *)
(***************************************************************************)
\* rows as a sequence, latest day first: order_by(recorded_at.desc())
RECURSIVE OrderByRecordedAtDesc(_)
OrderByRecordedAtDesc(rows) ==
    IF rows = {} THEN <<>>
    ELSE LET r == CHOOSE x \in rows : \A y \in rows : y.recorded_at <= x.recorded_at
         IN  <<r>> \o OrderByRecordedAtDesc(rows \ {r})

\* the rows of one area recorded at or after the cutoff, which is back days
\* before now; rows are stamped at midnight, so that the day exactly back days
\* ago lies before the cutoff
RecordsSince(tbl, area_id, back) ==
    OrderByRecordedAtDesc({r \in tbl : /\ r.area_id = area_id
                                       /\ r.recorded_at > Today - back})

\* variant: the days are counted from the latest day the ingest asks for
RECURSIVE MetricsFromEndDate(_, _, _, _)
MetricsFromEndDate(records, k, total_7_days, since) ==
    IF k > Len(records)
      THEN [total_7_days |-> total_7_days, days_since_rain |-> since]
      ELSE LET days_ago == (Today - 5) - records[k].recorded_at
               mm == records[k].precipitation_mm
           IN  MetricsFromEndDate(records, k + 1,
                       IF days_ago <= 12 THEN total_7_days + mm ELSE total_7_days,
                       IF IsNone(since) /\ mm > 10 THEN Some(days_ago) ELSE since)
\* the for loop of _calculate_for_crag from the k-th record
RECURSIVE Metrics(_, _, _, _)
Metrics(records, k, total_7_days, since) ==
    IF k > Len(records)
      THEN [total_7_days |-> total_7_days, days_since_rain |-> since]
      ELSE LET days_ago == Today - records[k].recorded_at
               mm == records[k].precipitation_mm
           IN  Metrics(records, k + 1,
                       IF days_ago <= 12 THEN total_7_days + mm ELSE total_7_days,
                       IF IsNone(since) /\ mm > 10 THEN Some(days_ago) ELSE since)

\* variant: an empty history is classified like a dry one
_calculate_for_crag_unguarded(tbl, crag) ==
    LET m == Metrics(RecordsSince(tbl, crag.id, 19), 1, 0, None)
    IN  Some(_apply_rules(m.total_7_days, m.days_since_rain))
\* SafetyCalculator._calculate_for_crag: <<>> when there is no record
_calculate_for_crag(tbl, crag) ==
    LET records == RecordsSince(tbl, crag.id, 19)
        m == Metrics(records, 1, 0, None)
    IN  IF records = <<>> THEN None
        ELSE Some(_apply_rules(m.total_7_days, m.days_since_rain))

\* the key of self.stats that counts a status
StatKey(st) == CASE st = "SAFE" -> "status_safe"
                 [] st = "CAUTION" -> "status_caution"
                 [] st = "UNSAFE" -> "status_unsafe"

\* calculate_all up to the for loop, on a new calculator
StartCalculateAll ==
    /\ Calculating /\ pc = "idle"
    /\ ~SessionOpen
    /\ cstats' = ZeroSafetyStats
    /\ session' = Some([open |-> TRUE,
                        todo |-> {r.id : r \in {x \in areas : ~IsNone(x.latitude)}},
                        done |-> {}, dirty |-> {}])
    /\ response' = None
    /\ UNCHANGED <<prog, unitVars, guide, areas, pages, crawlVars, legacyVars, call,
                   total_7_days_mm, days_since_rain, status, precip, wstats,
                   written, provider>>

\* one iteration of the for loop of calculate_all
CalculateStep ==
    /\ Calculating
    /\ SessionOpen
    /\ \E id \in Val(session).todo :
        LET crag == CHOOSE r \in areas : r.id = id
            st == _calculate_for_crag(precip, crag)
            se == Val(session)
        IN  /\ session' = Some([se EXCEPT
                                  !.todo = @ \ {id},
                                  !.done = @ \cup {id},
                                  !.dirty = IF IsNone(st) THEN @
                                            ELSE @ \cup {<<id, Val(st)>>}])
            /\ cstats' = IF IsNone(st)
                           THEN [cstats EXCEPT !.no_data = @ + 1,
                                               !.crags_processed = @ + 1]
                           ELSE [cstats EXCEPT ![StatKey(Val(st))] = @ + 1,
                                               !.crags_processed = @ + 1]
    /\ UNCHANGED <<prog, unitVars, guide, areas, pages, crawlVars, legacyVars, call,
                   total_7_days_mm, days_since_rain, status, precip, wstats,
                   written, provider, response>>

\* variant: the session is closed without a commit
CommitMissing(tbl, dirty) == tbl
\* the rows after the commit of the pending assignments
Commit(tbl, dirty) ==
    {IF \E d \in dirty : d[1] = r.id
       THEN [r EXCEPT !.safety_status =
                        Some((CHOOSE d \in dirty : d[1] = r.id)[2])]
       ELSE r : r \in tbl}

\* the for loop has ended: session.commit() and the statistics are returned
FinishCalculateAll ==
    /\ Calculating
    /\ SessionOpen /\ Val(session).todo = {}
    /\ areas' = Commit(areas, Val(session).dirty)
    /\ session' = Some([Val(session) EXCEPT !.open = FALSE])
    /\ UNCHANGED <<prog, unitVars, guide, pages, crawlVars, legacyVars, call,
                   total_7_days_mm, days_since_rain, status, precip, wstats,
                   written, cstats, provider, response>>

\* calculate_for_crag(crag_id), for the id of any area or of none
calculate_for_crag ==
    /\ prog = "safety"
    /\ ~SessionOpen
    /\ \E i \in 1..(NumUrls + 1) :
        LET crag_id == generate_deterministic_uuid(Canon(i))
            rows == RowsWithId(areas, crag_id)
        IN  IF rows = {}
              THEN /\ response' = Some([op |-> "calculate_for_crag",
                                        crag_id |-> crag_id,
                                        error |-> "ValueError", status |-> None])
                   /\ areas' = areas
              ELSE LET st == _calculate_for_crag(precip, CHOOSE r \in rows : TRUE)
                   IN  /\ response' = Some([op |-> "calculate_for_crag",
                                            crag_id |-> crag_id,
                                            error |-> "none", status |-> st])
                       /\ areas' = IF IsNone(st) THEN areas
                                   ELSE Commit(areas, {<<crag_id, Val(st)>>})
    /\ UNCHANGED <<prog, unitVars, guide, pages, crawlVars, legacyVars, call,
                   total_7_days_mm, days_since_rain, status, precip, wstats,
                   written, cstats, session, provider>>

(***************************************************************************)
(* The forecast of the API: get_crag_forecast.                             *)
(***************************************************************************)
\* the (date, mm) pairs of the rows of the last 14 days that are at most 12
\* days old, latest first
recent_precip(tbl, crag_id) ==
    LET records == RecordsSince(tbl, crag_id, 14)
        kept == SelectSeq(records, LAMBDA r : Today - r.recorded_at <= 12)
    IN  [k \in 1..Len(kept) |->
            [date |-> kept[k].recorded_at, mm |-> kept[k].precipitation_mm]]

\* the daily entries of the provider's answer to forecast_days = days: the
\* days from today on, a missing amount read as 0.0
ForecastEntries(days) ==
    [k \in 1..days |->
        [date |-> Today + (k - 1),
         mm |-> IF IsNone(provider[k]) THEN 0 ELSE Val(provider[k])]]

\* variant: the whole forecast is on the timeline from the first day on
combined_precip_whole(recent, forecast, i) == recent \o forecast
\* combined_precip when the loop is at the i-th forecast day
combined_precip(recent, forecast, i) == recent \o SubSeq(forecast, 1, i)

\* sorted(combined_precip, key=lambda x: x[0], reverse=True): the sort is
\* stable, entries of one date keep their order
RECURSIVE InsertByDateDesc(_, _)
InsertByDateDesc(x, sorted) ==
    IF sorted = <<>> THEN <<x>>
    ELSE IF Head(sorted).date >= x.date
      THEN <<Head(sorted)>> \o InsertByDateDesc(x, Tail(sorted))
      ELSE <<x>> \o sorted
RECURSIVE SortedByDateDesc(_)
SortedByDateDesc(entries) ==
    IF entries = <<>> THEN <<>>
    ELSE InsertByDateDesc(entries[Len(entries)],
                          SortedByDateDesc(SubSeq(entries, 1, Len(entries) - 1)))

\* the inner for loop from the k-th entry of the sorted timeline
RECURSIVE Rolling(_, _, _, _, _)
Rolling(sorted, forecast_date, k, rolling_sum, since) ==
    IF k > Len(sorted)
      THEN [rolling_sum |-> rolling_sum, days_since_rain |-> since]
      ELSE LET days_diff == forecast_date - sorted[k].date
               p_mm == sorted[k].mm
           IN  Rolling(sorted, forecast_date, k + 1,
                       IF 0 <= days_diff /\ days_diff <= 7
                         THEN rolling_sum + p_mm ELSE rolling_sum,
                       IF IsNone(since) /\ p_mm > 10 THEN Some(days_diff) ELSE since)

\* the body of the outer for loop for the i-th forecast day
DayForecastResponse(recent, forecast, i) ==
    LET combined == combined_precip(recent, forecast, i)
        m == Rolling(SortedByDateDesc(combined), forecast[i].date, 1, 0, None)
    IN  [date |-> forecast[i].date,
         predicted_status |-> calculate_safety_status(m.rolling_sum,
                                                      m.days_since_rain),
         precipitation_mm |-> forecast[i].mm]

\* variant: every SAFE day overwrites the date, the last one is reported
EstimatedSafeDateLast(day_forecasts) ==
    LET safe == {k \in 1..Len(day_forecasts) :
                    day_forecasts[k].predicted_status = "SAFE"}
    IN  IF safe = {} THEN None
        ELSE Some(day_forecasts[CHOOSE k \in safe : \A j \in safe : j <= k].date)
\* the first forecast day projected SAFE, if any
EstimatedSafeDate(day_forecasts) ==
    LET safe == {k \in 1..Len(day_forecasts) :
                    day_forecasts[k].predicted_status = "SAFE"}
    IN  IF safe = {} THEN None
        ELSE Some(day_forecasts[CHOOSE k \in safe : \A j \in safe : k <= j].date)

\* GET /crags/{crag_id}/forecast?days=days
get_crag_forecast ==
    /\ prog = "forecast"
    /\ \E i \in 1..(NumUrls + 1), days \in 1..MaxForecastDays :
        LET crag_id == generate_deterministic_uuid(Canon(i))
            rows == RowsWithId(areas, crag_id)
            crag == CHOOSE r \in rows : TRUE
            forecast == ForecastEntries(days)
            recent == recent_precip(precip, crag_id)
            day_forecasts == [k \in 1..days |->
                                 DayForecastResponse(recent, forecast, k)]
        IN  response' =
              IF rows = {}
                THEN Some([op |-> "get_crag_forecast", crag_id |-> crag_id,
                           error |-> "404"])
              ELSE IF IsNone(crag.latitude)
                THEN Some([op |-> "get_crag_forecast", crag_id |-> crag_id,
                           error |-> "400"])
              ELSE Some([op |-> "get_crag_forecast", crag_id |-> crag_id,
                         error |-> "none",
                         current_status |-> IF IsNone(crag.safety_status)
                                              THEN "UNKNOWN"
                                              ELSE Val(crag.safety_status),
                         estimated_safe_date |-> EstimatedSafeDate(day_forecasts),
                         days |-> day_forecasts])
    /\ UNCHANGED <<prog, unitVars, guide, areas, pages, crawlVars, legacyVars, call,
                   total_7_days_mm, days_since_rain, status, precip, wstats,
                   written, cstats, session, provider>>

\* SafetyCalculator.get_forecast(crag_id, days): an unknown crag gives the
\* empty list; otherwise OpenMeteoClient has no method get_forecast and the
\* lookup of the attribute raises before any day is projected
get_forecast ==
    /\ prog = "forecast"
    /\ \E i \in 1..(NumUrls + 1) :
        LET crag_id == generate_deterministic_uuid(Canon(i))
        IN  response' =
              IF RowsWithId(areas, crag_id) = {}
                THEN Some([op |-> "get_forecast", crag_id |-> crag_id,
                           error |-> "none", days |-> <<>>])
                ELSE Some([op |-> "get_forecast", crag_id |-> crag_id,
                           error |-> "AttributeError"])
    /\ UNCHANGED <<prog, unitVars, guide, areas, pages, crawlVars, legacyVars, call,
                   total_7_days_mm, days_since_rain, status, precip, wstats,
                   written, cstats, session, provider>>

\* SafetyCalculator.estimate_safe_date(crag_id): the first SAFE day of
\* get_forecast(crag_id, days=14), whose failure it does not catch
estimate_safe_date ==
    /\ prog = "forecast"
    /\ \E i \in 1..(NumUrls + 1) :
        LET crag_id == generate_deterministic_uuid(Canon(i))
        IN  response' =
              IF RowsWithId(areas, crag_id) = {}
                THEN Some([op |-> "estimate_safe_date", crag_id |-> crag_id,
                           error |-> "none", days |-> <<>>,
                           estimated_safe_date |-> None])
                ELSE Some([op |-> "estimate_safe_date", crag_id |-> crag_id,
                           error |-> "AttributeError"])
    /\ UNCHANGED <<prog, unitVars, guide, areas, pages, crawlVars, legacyVars, call,
                   total_7_days_mm, days_since_rain, status, precip, wstats,
                   written, cstats, session, provider>>

(***************************************************************************)
(* The scraper's browser: MountainProjectScraper._ensure_browser,          *)
(* _create_context, _cleanup_browser and fetch_page, one step per page-load *)
(* attempt.  A browser or context is its serial number; the scraper record *)
(* also holds how many were made, which browsers have crashed and how many *)
(* pages the current context has opened.                                   *)
(***************************************************************************)
max_retries == 3
context_recycle_requests == 25

\* MountainProjectScraper.__init__
NewScraper ==
    [_browser |-> None, _context |-> None, _request_count |-> 0,
     launched |-> 0, contexts |-> 0, crashed |-> {}, opened |-> 0]

\* a new context replaces the old one, which is closed
_create_context(w) ==
    [w EXCEPT !._context = Some(w.contexts + 1), !.contexts = @ + 1, !.opened = 0]

\* variant: the teardown also starts the request count again
_cleanup_browser_recount(w) ==
    [w EXCEPT !._browser = None, !._context = None, !._request_count = 0]
\* context and browser are closed, playwright is stopped, all are forgotten
_cleanup_browser(w) == [w EXCEPT !._browser = None, !._context = None]

\* launches a browser with a context when there is none, after tearing the
\* current one down when force_restart is set
_ensure_browser(w, force_restart) ==
    LET a == IF force_restart THEN _cleanup_browser(w) ELSE w
    IN  IF IsNone(a._browser)
          THEN _create_context([a EXCEPT !._browser = Some(a.launched + 1),
                                         !.launched = @ + 1])
          ELSE a

\* an error is modelled by its lowercased message: the indicator it
\* contains, or a message that contains none
crash_indicators ==
    {"target closed", "browser", "context", "crash", "connection closed",
     "protocol error", "page closed", "session closed"}
Errors == {"target closed", "protocol error", "timeout exceeded"}

\* variant: every error is taken for a browser crash
_is_browser_crash_any(error) == TRUE
_is_browser_crash(error) == error \in crash_indicators

\* what a page load on the browser can end with: a crashed browser loads
\* nothing any more
LoadOutcomes(w) ==
    IF Val(w._browser) \in w.crashed THEN Errors \cap crash_indicators
    ELSE {"ok"} \cup Errors

\* base of the exponential backoff slept before a retry, in seconds
Backoff(retry_count) == 5 * 2 ^ retry_count

\* the call in progress
Running == ~IsNone(fetch) /\ Val(fetch).status = "running"

\* a caller calls fetch_page(url) on the scraper
CallFetchPage ==
    /\ prog = "fetch"
    /\ ~Running
    /\ scraper._request_count < MaxRequests
    /\ fetch' = Some([status |-> "running", retry_count |-> 0, trace |-> <<>>])
    /\ UNCHANGED <<prog, guide, areas, pages, crawlVars, legacyVars, call,
                   safetyVars, scraper, link, keys, writes>>

\* one execution of the body of fetch_page: the browser is ensured, the
\* request is counted, the context is recycled every 25 requests, the page
\* is loaded; an error is either answered by backoff, restart and the
\* recursive call, or raised
fetch_page ==
    /\ prog = "fetch" /\ Running
    /\ LET f == Val(fetch)
           w1 == _ensure_browser(scraper, FALSE)
           w2 == [w1 EXCEPT !._request_count = @ + 1]
           w2r == IF w2._request_count % context_recycle_requests = 0
                    THEN _create_context(w2) ELSE w2
           \* self._context.new_page()
           w3 == [w2r EXCEPT !.opened = @ + 1]
           browser == Val(w3._browser)
       IN  \E outcome \in LoadOutcomes(w3) :
             LET w4 == IF outcome \in crash_indicators
                         THEN [w3 EXCEPT !.crashed = @ \cup {browser}] ELSE w3
                 retry == outcome # "ok" /\ f.retry_count < max_retries
                              /\ _is_browser_crash(outcome)
                 attempt == [browser |-> browser, context |-> Val(w3._context),
                             stale |-> browser \in w3.crashed,
                             outcome |-> outcome,
                             backoff |-> IF retry THEN Some(Backoff(f.retry_count))
                                         ELSE None,
                             restarted |-> retry]
             IN  /\ scraper' = IF retry THEN _ensure_browser(w4, TRUE) ELSE w4
                 /\ fetch' = Some([status |-> IF outcome = "ok" THEN "returned"
                                              ELSE IF retry THEN "running"
                                              ELSE "raised",
                                   retry_count |-> IF retry THEN f.retry_count + 1
                                                   ELSE f.retry_count,
                                   trace |-> Append(f.trace, attempt)])
    /\ UNCHANGED <<prog, guide, areas, pages, crawlVars, legacyVars, call,
                   safetyVars, link, keys, writes>>

(***************************************************************************)
(* The url normalizers on the text of a link.  A text is an optional       *)
(* scheme and host, a path, an optional query and an optional fragment;    *)
(* the path is a sequence of pieces of text, chosen so that '/classics'    *)
(* is the three pieces "/", "clas", "sics" and occurs in a path exactly    *)
(* where these three pieces follow each other.                             *)
(***************************************************************************)
Pieces == {"/", "clas", "sics", "a"}
classics == <<"/", "clas", "sics">>

RECURSIVE PathsOfLen(_)
PathsOfLen(n) ==
    IF n = 0 THEN {<<>>}
    ELSE {Append(p, c) : p \in PathsOfLen(n - 1), c \in Pieces}

\* site paths: empty, or starting with one slash (a text starting with two
\* slashes names another host)
Paths ==
    {p \in UNION {PathsOfLen(n) : n \in 0..MaxPath} :
        /\ Len(p) >= 1 => p[1] = "/"
        /\ Len(p) >= 2 => p[2] # "/"}

RawLinks ==
    {[abs |-> a, path |-> p, query |-> q, fragment |-> f] :
        a \in BOOLEAN, p \in Paths, q \in BOOLEAN, f \in BOOLEAN}

\* str.rstrip('/')
RECURSIVE rstrip(_)
rstrip(t) ==
    IF t # <<>> /\ t[Len(t)] = "/" THEN rstrip(SubSeq(t, 1, Len(t) - 1)) ELSE t

StartsWith(t, old) == Len(t) >= Len(old) /\ SubSeq(t, 1, Len(old)) = old

\* str.replace(old, ''): the occurrences found from left to right, without
\* looking again at what a removal has joined
RECURSIVE replace(_, _)
replace(t, old) ==
    IF t = <<>> THEN t
    ELSE IF StartsWith(t, old) THEN replace(SubSeq(t, Len(old) + 1, Len(t)), old)
    ELSE <<t[1]>> \o replace(Tail(t), old)

\* urlunparse with a host: a path that does not start with a slash gets one
urlunparse(path) ==
    [abs |-> TRUE,
     path |-> IF path # <<>> /\ path[1] # "/" THEN <<"/">> \o path ELSE path,
     query |-> FALSE, fragment |-> FALSE]

\* crawler/utils.normalize_url on the text of a link
normalize_url_text(u) == urlunparse(rstrip(replace(u.path, classics)))

\* MountainProjectScraper._normalize_url on the text of a link: the text
\* ends with its path only when it has no query and no fragment
_normalize_url_text(u) ==
    [u EXCEPT !.abs = TRUE,
              !.path = IF u.query \/ u.fragment THEN @ ELSE rstrip(@)]

\* the legacy crawler normalizes the link, or the key it got for it
CrawlerNormalize ==
    /\ prog = "normalize"
    /\ Len(Val(keys).legacy) < MaxApplications
    /\ LET k == Val(keys).legacy
           u == IF k = <<>> THEN Val(link) ELSE k[Len(k)]
       IN  keys' = Some([Val(keys) EXCEPT !.legacy = Append(k, normalize_url_text(u))])
    /\ UNCHANGED <<prog, guide, areas, pages, crawlVars, legacyVars, call,
                   safetyVars, scraper, fetch, link, writes>>

\* the scraper normalizes the link, or the key it got for it
ScraperNormalize ==
    /\ prog = "normalize"
    /\ Len(Val(keys).scraper) < MaxApplications
    /\ LET k == Val(keys).scraper
           u == IF k = <<>> THEN Val(link) ELSE k[Len(k)]
       IN  keys' = Some([Val(keys) EXCEPT !.scraper = Append(k, _normalize_url_text(u))])
    /\ UNCHANGED <<prog, guide, areas, pages, crawlVars, legacyVars, call,
                   safetyVars, scraper, fetch, link, writes>>

(***************************************************************************)
(* The API's location strings: routers/crags.py and its test.  A text is   *)
(* the sequence of its parts: names and the separators between them.       *)
(***************************************************************************)
\* the names module routers/crags.py defines or imports
RoutersCragsNames ==
    {"APIRouter", "Depends", "HTTPException", "Query", "Session", "func", "or_",
     "Optional", "datetime", "timedelta", "date", "httpx", "get_db", "ODSArea",
     "ODSAreaPrecipitation", "CragResponse", "CragDetailResponse",
     "PrecipitationData", "CragListResponse", "ForecastResponse",
     "DayForecastResponse", "SafetyStatusEnum", "router",
     "build_location_path_slow", "build_area_lookup", "build_location_path_fast",
     "crag_to_response", "list_crags", "search_crags", "nearby_crags", "get_crag",
     "WEEKLY_PRECIP_CAUTION_MM", "WEEKLY_PRECIP_UNSAFE_MM", "SAFE_DAYS_THRESHOLD",
     "CAUTION_DAYS_THRESHOLD", "calculate_safety_status", "get_weather_icon",
     "get_crag_forecast"}

\* "from routers.crags import name"
ImportFromRoutersCrags(name) ==
    IF name \in RoutersCragsNames THEN "imported" ELSE "ImportError"

\* ' > '.join(parts)
RECURSIVE Join(_)
Join(parts) ==
    IF Len(parts) <= 1 THEN parts
    ELSE <<parts[1], " > ">> \o Join(Tail(parts))

Reverse(q) == [k \in 1..Len(q) |-> q[Len(q) + 1 - k]]

\* the nested dicts {name, url, child} of the test, by the ids of their
\* nodes from the outermost to the innermost; <<>> is the empty dict
Hierarchies == UNION {[1..n -> UrlIds] : n \in 0..MaxNesting}

\* test_location_format: the import, and the calls if it succeeds
test_location_format ==
    /\ prog = "location"
    /\ \E hierarchy \in {None} \cup {Some(h) : h \in Hierarchies} :
        call' = Some([op |-> "format_location", hierarchy |-> hierarchy,
                      raised |-> ImportFromRoutersCrags("format_location"),
                      location |-> None])
    /\ UNCHANGED <<prog, unitVars, guide, areas, pages, crawlVars, legacyVars,
                   safetyVars>>

\* the names from current up to the root, current first
RECURSIVE WalkUp(_, _)
WalkUp(tbl, current) ==
    IF IsNone(current) THEN <<>>
    ELSE LET row == Val(current)
             parent == IF IsNone(row.parent_id) THEN {}
                       ELSE RowsWithId(tbl, Val(row.parent_id))
         IN  <<row.name>> \o
             WalkUp(tbl, IF parent = {} THEN None
                         ELSE Some(CHOOSE r \in parent : TRUE))

\* the end of both path builders: root first, the crag itself left out
LocationOf(parts) ==
    IF Len(parts) > 1 THEN Join(SubSeq(Reverse(parts), 1, Len(parts) - 1))
    ELSE IF parts # <<>> THEN <<parts[1]>> ELSE <<"Unknown">>

\* build_location_path_slow(area, db): one query per ancestor
build_location_path_slow(area, tbl) == LocationOf(WalkUp(tbl, Some(area)))
\* build_location_path_fast(area, area_lookup): the lookup holds every row
build_location_path_fast(area, tbl) == LocationOf(WalkUp(tbl, Some(area)))

\* crag_to_response(crag, db, area_lookup) for a row with coordinates, with
\* the lookup of list_crags or without
crag_to_response ==
    /\ prog = "location"
    /\ \E crag \in {r \in areas : ~IsNone(r.latitude)}, area_lookup \in BOOLEAN :
        call' = Some([op |-> "crag_to_response", id |-> crag.id,
                      raised |-> "none",
                      location |->
                        Some(IF area_lookup
                               THEN build_location_path_fast(crag, areas)
                               ELSE build_location_path_slow(crag, areas))])
    /\ UNCHANGED <<prog, unitVars, guide, areas, pages, crawlVars, legacyVars,
                   safetyVars>>

(***************************************************************************)
(* The crawl programs: the jobs CLI's crawl, or the legacy crawler.        *)
(***************************************************************************)
\* the programs that exercise one client or one function alone are not running
InitUnits ==
    /\ scraper = NewScraper /\ fetch = None
    /\ link = None /\ keys = None /\ writes = <<>>

Guides == {[k \in 1..n |-> k] : n \in 1..NumStates}

InitCrawl ==
    /\ pages = [i \in UrlIds |-> None]
    /\ pc = "idle" /\ runs = 0 /\ max_areas = None /\ clean = TRUE
    /\ visited = {} /\ fetched = NoFetches
    /\ already = {} /\ states = <<>> /\ sidx = 1 /\ queue = <<>>
    /\ stats = ZeroStats /\ failed_urls = {} /\ faults = 0 /\ snap = None
    /\ logs = NothingLogged
    /\ found = {} /\ stack = <<>> /\ rendered = [k \in 0..NumUrls |-> 0]

InitSafety ==
    /\ total_7_days_mm = 0 /\ days_since_rain = None /\ status = None
    /\ precip = {} /\ wstats = ZeroWeatherStats /\ written = NothingWritten
    /\ cstats = ZeroSafetyStats /\ session = None
    /\ provider = <<>> /\ response = None

Init ==
    /\ prog \in {"jobs", "legacy"}
    /\ guide \in Guides
    /\ areas = {}
    /\ InitCrawl
    /\ call = None
    /\ InitSafety
    /\ InitUnits

Next ==
    \/ StartSyncAll \/ BeginState \/ LeaveState \/ SkipEntry \/ VisitEntry
    \/ FinishSyncAll \/ StartSyncFailed \/ RetryStep \/ FinishSyncFailed
    \/ LegacyStart \/ LegacyFollow \/ LegacyReturn

Spec == Init /\ [][Next]_vars

(***************************************************************************)
(* One scraper used for a sequence of fetch_page calls.                    *)
(***************************************************************************)
InitFetch ==
    /\ prog = "fetch"
    /\ guide = <<1>> /\ areas = {} /\ InitCrawl /\ call = None
    /\ InitSafety
    /\ InitUnits

NextFetch == CallFetchPage \/ fetch_page

SpecFetch == InitFetch /\ [][NextFetch]_vars

(***************************************************************************)
(* The writes one run issues for one url, delivered in any order and more  *)
(* than once: the root write of a state, the placeholder write by a page   *)
(* that links to the url, and the write with coordinates after the url's   *)
(* own page was fetched.  The states are in the table.                     *)
(***************************************************************************)
StateId(j) == generate_deterministic_uuid(Canon(j))

\* _process_state, before the loop
RootWrite(i) == Request(StateId(i), LinkText(i), Canon(i), None, None, None)
\* _process_state, for a child link found below the area parent_id
PlaceholderWrite(i, parent_id) ==
    Request(StateId(i), LinkText(i), Canon(i), Some(parent_id), None, None)
\* _process_state, for the page of a queue entry (url, parent_id, depth)
EnrichedWrite(i, parent_id) ==
    Request(StateId(i), H1Text(i), Canon(i),
            actual_parent_id(StateId(i), parent_id), Some(Lat(i)), Some(Lon(i)))

\* in the order the run issues them: a state is queued under its own id, a
\* child under the area that linked to it; a second page may link to either
\* before its page is fetched
IssuedWrites ==
    LET first(i, p) ==
            IF i <= NumParents
              THEN <<RootWrite(i), EnrichedWrite(i, StateId(i))>>
              ELSE <<PlaceholderWrite(i, StateId(p)), EnrichedWrite(i, StateId(p))>>
        later(i) == {<<>>} \cup {<<PlaceholderWrite(i, StateId(q))>> :
                                    q \in 1..NumParents \ {i}}
    IN  UNION {{first(i, p) \o l : l \in later(i)} :
                  i \in UrlIds, p \in 1..NumParents}

\* one of the issued writes reaches the database, possibly once more
Deliver ==
    /\ prog = "reorder"
    /\ \E k \in 1..Len(writes.issued) :
        LET q == writes.issued[k]
        IN  /\ writes.delivered[k] < MaxDeliveries
            /\ areas' = _upsert_area(areas, q.area_id, q.name, q.url, q.parent_id,
                                     q.latitude, q.longitude, runs, FALSE).tbl
            /\ writes' = [writes EXCEPT !.delivered[k] = @ + 1]
    /\ UNCHANGED <<prog, guide, pages, crawlVars, legacyVars, call, safetyVars,
                   scraper, fetch, link, keys>>

\* the rows of the states, written by an earlier state loop
InitialParents == {AreaRow(j, FALSE, None) : j \in 1..NumParents}

InitReorder ==
    /\ prog = "reorder"
    /\ guide = <<1>> /\ InitCrawl /\ call = None
    /\ areas = InitialParents
    /\ InitSafety
    /\ scraper = NewScraper /\ fetch = None /\ link = None /\ keys = None
    /\ writes \in {[issued |-> w, delivered |-> [k \in 1..Len(w) |-> 0]] :
                      w \in IssuedWrites}

SpecReorder == InitReorder /\ [][Deliver]_vars

(***************************************************************************)
(* The location strings over every forest of areas with coordinates.       *)
(***************************************************************************)
\* parent links over the areas that form no cycle
RECURSIVE Rooted(_, _, _)
Rooted(par, i, n) ==
    IF IsNone(par[i]) THEN TRUE
    ELSE IF n = 0 THEN FALSE ELSE Rooted(par, Val(par[i]), n - 1)
Forests ==
    {par \in [UrlIds -> {None} \cup {Some(j) : j \in UrlIds}] :
        \A i \in UrlIds : Rooted(par, i, NumUrls)}
ForestTable(par) ==
    {[AreaRow(i, TRUE, None) EXCEPT
         !.parent_id = IF IsNone(par[i]) THEN None
                       ELSE Some(generate_deterministic_uuid(Canon(Val(par[i]))))] :
       i \in UrlIds}

InitLocation ==
    /\ prog = "location"
    /\ guide = <<1>> /\ InitCrawl /\ call = None
    /\ areas \in {ForestTable(par) : par \in Forests}
    /\ InitSafety
    /\ InitUnits

NextLocation == test_location_format \/ crag_to_response

SpecLocation == InitLocation /\ [][NextLocation]_vars

(***************************************************************************)
(* The crawl commands over a site that is one chain: the state page links  *)
(* to area 2, area 2 to area 3, and so on down to area ChainLen.           *)
(***************************************************************************)
ChainPage(i, coords) ==
    [links |-> IF i < ChainLen THEN <<i + 1>> ELSE <<>>, coords |-> coords]

InitChain ==
    /\ prog = "chain"
    /\ guide = <<1>> /\ areas = {} /\ call = None
    /\ \E coords \in BOOLEAN :
          pages = [i \in 1..ChainLen |-> Some(ChainPage(i, coords))]
    /\ pc = "idle" /\ runs = 0 /\ max_areas = None /\ clean = TRUE
    /\ visited = {} /\ fetched = NoFetches
    /\ already = {} /\ states = <<>> /\ sidx = 1 /\ queue = <<>>
    /\ stats = ZeroStats /\ failed_urls = {} /\ faults = 0 /\ snap = None
    /\ logs = NothingLogged
    /\ found = {} /\ stack = <<>> /\ rendered = NoFetches
    /\ InitSafety
    /\ InitUnits

NextCrawl ==
    \/ StartSyncAll \/ BeginState \/ LeaveState \/ SkipEntry \/ VisitEntry
    \/ FinishSyncAll \/ StartSyncFailed \/ RetryStep \/ FinishSyncFailed

SpecChain == InitChain /\ [][NextCrawl]_vars

(***************************************************************************)
(* The crawl commands over the diamond.                                    *)
(***************************************************************************)
InitDiamond ==
    /\ prog = "diamond"
    /\ guide = <<1>> /\ areas = {} /\ call = None
    /\ \E coords \in BOOLEAN :
          pages = [i \in 1..Len(Diamond) |->
                      Some([links |-> Diamond[i], coords |-> coords])]
    /\ pc = "idle" /\ runs = 0 /\ max_areas = None /\ clean = TRUE
    /\ visited = {} /\ fetched = NoFetches
    /\ already = {} /\ states = <<>> /\ sidx = 1 /\ queue = <<>>
    /\ stats = ZeroStats /\ failed_urls = {} /\ faults = 0 /\ snap = None
    /\ logs = NothingLogged
    /\ found = {} /\ stack = <<>> /\ rendered = NoFetches
    /\ InitSafety
    /\ InitUnits

SpecDiamond == InitDiamond /\ [][NextCrawl]_vars

(***************************************************************************)
(* The crawl commands over the knot, and the same with the scheduling of   *)
(* a running command: a step that can be taken is taken, every page load   *)
(* returns or raises.                                                      *)
(***************************************************************************)
InitKnot ==
    /\ prog = "knot"
    /\ guide \in {<<1>>, <<1, 2>>} /\ areas = {} /\ call = None
    /\ \E coords \in BOOLEAN :
          pages = [i \in 1..Len(Knot) |-> Some([links |-> Knot[i], coords |-> coords])]
    /\ pc = "idle" /\ runs = 0 /\ max_areas = None /\ clean = TRUE
    /\ visited = {} /\ fetched = NoFetches
    /\ already = {} /\ states = <<>> /\ sidx = 1 /\ queue = <<>>
    /\ stats = ZeroStats /\ failed_urls = {} /\ faults = 0 /\ snap = None
    /\ logs = NothingLogged
    /\ found = {} /\ stack = <<>> /\ rendered = NoFetches
    /\ InitSafety
    /\ InitUnits

\* a command that has started goes on to its end
CommandStep ==
    \/ BeginState \/ LeaveState \/ SkipEntry \/ VisitEntry
    \/ FinishSyncAll \/ RetryStep \/ FinishSyncFailed

SpecKnot == InitKnot /\ [][NextCrawl]_vars /\ WF_vars(CommandStep)

(***************************************************************************)
(* The crawl commands over the knot, its first two pages being states,     *)
(* while the API rebuilds ancestor chains.  get_area_breadcrumb and        *)
(* build_location_path_slow read the table row by row, one query for each  *)
(* parent, in the one transaction of the request's session, so that they   *)
(* read the table as it was at the first query whatever the crawl writes   *)
(* meanwhile; build_location_path_fast reads the lookup loaded before the  *)
(* walk.  call holds the walk: the rows it reads, the row at hand, the     *)
(* rows visited so far (the code keeps their names or their responses)     *)
(* and the value returned.                                                 *)
(***************************************************************************)
WalkOps == {"get_area_breadcrumb", "build_location_path_slow",
            "build_location_path_fast"}

\* api/routers/areas.py: area_to_response(area, db)
area_to_response(area, tbl) ==
    [id |-> area.id, name |-> area.name, parent_id |-> area.parent_id,
     has_children |-> \E r \in tbl : r.parent_id = Some(area.id),
     is_crag |-> ~IsNone(area.latitude) /\ ~IsNone(area.longitude),
     latitude |-> area.latitude, longitude |-> area.longitude,
     safety_status |-> area.safety_status, mountain_project_url |-> area.url]

WalkInProgress ==
    prog = "breadcrumb" /\ call # None /\ Val(call).current # None

\* a request that arrives between two commands: the walk starts at a row of
\* the table; build_area_lookup loads every row
WalkStart ==
    /\ prog = "breadcrumb" /\ ~WalkInProgress /\ pc = "idle"
    /\ \E op \in WalkOps, area \in areas :
          call' = Some([op |-> op, area_id |-> area.id,
                        snapshot |-> areas,
                        current |-> Some(area), visited |-> <<>>, path |-> <<>>,
                        result |-> None])
    /\ UNCHANGED <<prog, unitVars, guide, areas, pages, crawlVars, legacyVars,
                   safetyVars>>

\* one iteration of "while current"; when current becomes None the loop
\* ends, and the path is reversed and returned.  A walk that has visited
\* more rows than there are is going round a cycle and is followed no further.
WalkStep ==
    /\ WalkInProgress
    /\ Len(Val(call).visited) <= Cardinality(Val(call).snapshot)
    /\ LET c == Val(call)
           row == Val(c.current)
           tbl == c.snapshot
           parent == IF IsNone(row.parent_id) THEN {}
                     ELSE RowsWithId(tbl, Val(row.parent_id))
           next == IF parent = {} THEN None ELSE Some(CHOOSE r \in parent : TRUE)
           path == Append(c.path, IF c.op = "get_area_breadcrumb"
                                    THEN area_to_response(row, tbl)
                                    ELSE row.name)
       IN  call' = Some([c EXCEPT
                           !.visited = Append(@, row),
                           !.path = path,
                           !.current = next,
                           !.result =
                              IF next # None THEN None
                              ELSE IF c.op = "get_area_breadcrumb"
                                     THEN Some(Reverse(path))
                                     ELSE Some(LocationOf(path))])
    /\ UNCHANGED <<prog, unitVars, guide, areas, pages, crawlVars, legacyVars,
                   safetyVars>>

InitBreadcrumb ==
    /\ prog = "breadcrumb"
    /\ guide = <<1, 2>> /\ areas = {} /\ call = None
    /\ \E coords \in BOOLEAN :
          pages = [i \in 1..Len(Knot) |-> Some([links |-> Knot[i], coords |-> coords])]
    /\ pc = "idle" /\ runs = 0 /\ max_areas = None /\ clean = TRUE
    /\ visited = {} /\ fetched = NoFetches
    /\ already = {} /\ states = <<>> /\ sidx = 1 /\ queue = <<>>
    /\ stats = ZeroStats /\ failed_urls = {} /\ faults = 0 /\ snap = None
    /\ logs = NothingLogged
    /\ found = {} /\ stack = <<>> /\ rendered = NoFetches
    /\ InitSafety
    /\ InitUnits

NextBreadcrumb == NextCrawl \/ WalkStart \/ WalkStep

SpecBreadcrumb == InitBreadcrumb /\ [][NextBreadcrumb]_vars

(***************************************************************************)
(* The two url normalizers applied to every raw link, and to their result. *)
(***************************************************************************)
InitNormalize ==
    /\ prog = "normalize"
    /\ guide = <<1>> /\ areas = {} /\ InitCrawl /\ call = None
    /\ InitSafety
    /\ scraper = NewScraper /\ fetch = None /\ writes = <<>>
    /\ link \in {Some(u) : u \in RawLinks}
    /\ keys = Some([legacy |-> <<>>, scraper |-> <<>>])

NextNormalize == CrawlerNormalize \/ ScraperNormalize

SpecNormalize == InitNormalize /\ [][NextNormalize]_vars

(***************************************************************************)
(* _upsert_area called directly, by any caller in any order: every call is *)
(* one statement in its own session, so that concurrent runs are a         *)
(* sequence of calls.                                                      *)
(***************************************************************************)
ParentArgs ==
    {None} \cup {Some(generate_deterministic_uuid(Canon(j))) : j \in 1..NumParents}

\* one call, with the arguments the callers build: the id of the url, and
\* either the link text without coordinates or the page's own name with them
UpsertCall ==
    /\ prog = "upsert"
    /\ \E i \in UrlIds, crag \in BOOLEAN, parent_id \in ParentArgs,
          fault \in BOOLEAN :
        LET url == Canon(i)
            name == IF crag THEN H1Text(i) ELSE LinkText(i)
            latitude == IF crag THEN Some(Lat(i)) ELSE None
            longitude == IF crag THEN Some(Lon(i)) ELSE None
            r == _upsert_area(areas, generate_deterministic_uuid(url), name, url,
                              parent_id, latitude, longitude, runs, fault)
        IN  /\ areas' = r.tbl
            /\ call' = Some([url |-> url, name |-> name, parent_id |-> parent_id,
                             latitude |-> latitude, longitude |-> longitude,
                             hit |-> RowsWithUrl(areas, url) # {},
                             rows |-> Cardinality(areas),
                             fault |-> fault, ret |-> r.ret, logged |-> r.logged])
    /\ UNCHANGED <<prog, unitVars, guide, pages, crawlVars, legacyVars, safetyVars>>

InitUpsert ==
    /\ prog = "upsert"
    /\ guide = <<1>>
    /\ areas = {}
    /\ InitCrawl
    /\ call = None
    /\ InitSafety
    /\ InitUnits

SpecUpsert == InitUpsert /\ [][UpsertCall]_vars

(***************************************************************************)
(* The classifiers alone, on every total up to MaxTotal and every number   *)
(* of days since rain up to MaxDays.                                       *)
(***************************************************************************)
InitApplyRules ==
    /\ prog = "rules"
    /\ guide = <<1>> /\ areas = {} /\ InitCrawl /\ call = None
    /\ total_7_days_mm \in 0..MaxTotal
    /\ days_since_rain \in {None} \cup {Some(d) : d \in 0..MaxDays}
    /\ status = None
    /\ precip = {} /\ wstats = ZeroWeatherStats /\ written = NothingWritten
    /\ cstats = ZeroSafetyStats /\ session = None
    /\ provider = <<>> /\ response = None
    /\ InitUnits

SpecRules == InitApplyRules /\ [][ApplyRules]_vars

(***************************************************************************)
(* The classifiers under other settings: every Settings field can be set   *)
(* from the environment or .env, so a calculator may run with any          *)
(* thresholds, ordered or not; the API's thresholds are module constants.  *)
(***************************************************************************)
DayThresholds == (0 - 1)..MaxDays
MmThresholds == {0, weekly_precip_caution_mm, weekly_precip_unsafe_mm}
SettingsChoices ==
    [safe_days_threshold : DayThresholds, caution_days_threshold : DayThresholds,
     weekly_precip_caution_mm : MmThresholds, weekly_precip_unsafe_mm : MmThresholds]
\* totals at and around the thresholds
Totals ==
    {t \in 0..MaxTotal :
        \E m \in MmThresholds \cup {MaxTotal} : t \in {m - 1, m, m + 1}}

\* one call of _apply_rules of a calculator with the settings chosen, and of
\* calculate_safety_status, with the arguments drawn at the start
ApplyRulesWith ==
    /\ prog = "settings" /\ IsNone(status)
    /\ \E settings \in SettingsChoices :
          status' = Some([settings |-> settings,
                          jobs |-> _apply_rules_with(settings, total_7_days_mm,
                                                     days_since_rain),
                          api |-> calculate_safety_status(total_7_days_mm,
                                                          days_since_rain)])
    /\ UNCHANGED <<prog, unitVars, guide, areas, pages, crawlVars, legacyVars, call,
                   total_7_days_mm, days_since_rain, precip, wstats, written,
                   cstats, session, provider, response>>

InitSettings ==
    /\ prog = "settings"
    /\ guide = <<1>> /\ areas = {} /\ InitCrawl /\ call = None
    /\ total_7_days_mm \in Totals
    /\ days_since_rain \in {None} \cup {Some(d) : d \in 0..MaxDays}
    /\ status = None
    /\ precip = {} /\ wstats = ZeroWeatherStats /\ written = NothingWritten
    /\ cstats = ZeroSafetyStats /\ session = None
    /\ provider = <<>> /\ response = None
    /\ InitUnits

SpecSettings == InitSettings /\ [][ApplyRulesWith]_vars

(***************************************************************************)
(* The precipitation ingest over a table of two crags and one area without *)
(* coordinates; ods_precipitation is empty after the migration that        *)
(* creates it, and the ingest is its only writer.                          *)
(***************************************************************************)
StoredStatuses == {None, Some("UNKNOWN"), Some("SAFE"), Some("UNSAFE")}
AreaTables ==
    {{AreaRow(1, TRUE, s1), AreaRow(2, TRUE, s2), AreaRow(3, FALSE, None)} :
        s1, s2 \in StoredStatuses}

InitWeather ==
    /\ prog = "weather"
    /\ guide = <<1>> /\ areas \in AreaTables /\ InitCrawl /\ call = None
    /\ InitSafety
    /\ InitUnits

SpecWeather == InitWeather /\ [][SyncCragWeather]_vars

(***************************************************************************)
(* The safety calculator over the same areas and a precipitation history. *)
(***************************************************************************)
\* a history: for each crag and each of the given days, no row or a row
PrecipitationRow(area_id, d, mm) ==
    [area_id |-> area_id, recorded_at |-> d, precipitation_mm |-> mm,
     temperature_max_c |-> None, temperature_min_c |-> None]
Histories(crags, dates, amounts) ==
    {{PrecipitationRow(generate_deterministic_uuid(Canon(k[1])), k[2], Val(h[k])) :
         k \in {x \in crags \X dates : ~IsNone(h[x])}} :
       h \in [crags \X dates -> {None} \cup {Some(a) : a \in amounts}]}

\* days inside the 12 days that are summed, inside the lookback only, and
\* before the lookback
SafetyDates == {Today - 5, Today - 13, Today - 19}

InitCalculator ==
    /\ prog = "safety"
    /\ guide = <<1>> /\ areas \in AreaTables /\ call = None
    /\ pages = [i \in UrlIds |-> None]
    /\ pc = "idle" /\ runs = 0 /\ max_areas = None /\ clean = TRUE
    /\ visited = {} /\ fetched = NoFetches
    /\ already = {} /\ states = <<>> /\ sidx = 1 /\ queue = <<>>
    /\ stats = ZeroStats /\ failed_urls = {} /\ faults = 0
    /\ snap = Some(areas) /\ logs = NothingLogged
    /\ found = {} /\ stack = <<>> /\ rendered = NoFetches
    /\ total_7_days_mm = 0 /\ days_since_rain = None /\ status = None
    /\ precip \in Histories({1, 2}, SafetyDates, {20, 1500})
    /\ wstats = ZeroWeatherStats /\ written = NothingWritten
    /\ cstats = ZeroSafetyStats /\ session = None
    /\ provider = <<>> /\ response = None
    /\ InitUnits

NextCalculator ==
    \/ StartCalculateAll \/ CalculateStep \/ FinishCalculateAll
    \/ calculate_for_crag

SpecSafety == InitCalculator /\ [][NextCalculator]_vars

(***************************************************************************)
(* The OpenBeta sync: OpenBetaSyncService.sync_all over a catalog of one   *)
(* state.  pages[i] holds the children the API lists for area i and        *)
(* whether i has coordinates; queue is the local list batch, stack the     *)
(* iterators of the for loops over areas and sub_areas, call the local     *)
(* total_areas_processed and how the call ended, logs the batch writes     *)
(* logged.  A request to the API and a batch write may each fail.          *)
(***************************************************************************)
\* state 1 lists areas 2 and 3, area 2 lists area 3 and area 3 lists area 2
Listings == <<(<<2, 3>>), (<<3>>), (<<2>>)>>

OpenBetaZeroStats ==
    [states_processed |-> 0, areas_processed |-> 0, crags_found |-> 0,
     crags_upserted |-> 0, errors |-> 0]

\* the record _upsert_batch builds for an area; "openbeta:<uuid>" is a string
\* no url is equal to
CragRecord(i) ==
    [id |-> generate_deterministic_uuid(Url(FALSE, i, 1)), url |-> Canon(i),
     name |-> LinkText(i), latitude |-> Some(Lat(i)), longitude |-> Some(Lon(i)),
     safety_status |-> Some("UNKNOWN")]

\* INSERT ... ON DUPLICATE KEY UPDATE name, latitude, longitude,
\* location_hierarchy_json for the k-th area of the batch and those after it
RECURSIVE UpsertRecords(_, _, _)
UpsertRecords(tbl, batch, k) ==
    IF k > Len(batch) THEN tbl
    ELSE LET record == CragRecord(batch[k])
             after == IF \E r \in tbl : r.id = record.id
                        THEN {IF r.id = record.id
                                THEN [r EXCEPT !.name = record.name,
                                               !.latitude = record.latitude,
                                               !.longitude = record.longitude]
                                ELSE r : r \in tbl}
                        ELSE tbl \cup {record}
         IN  UpsertRecords(after, batch, k + 1)

\* _upsert_batch(batch): the table, the statistics and the log after it, and
\* whether it raised; a write that fails is rolled back
_upsert_batch(tbl, st, lg, batch, ok) ==
    IF ok THEN [areas |-> UpsertRecords(tbl, batch, 1),
                stats |-> [st EXCEPT !.crags_upserted = @ + Len(batch)],
                logs |-> [lg EXCEPT !.batch_upserted = @ + 1],
                raised |-> FALSE]
    ELSE [areas |-> tbl, stats |-> st,
          logs |-> [lg EXCEPT !.batch_upsert_failed = @ + 1], raised |-> TRUE]

\* "max_areas and total_areas_processed >= max_areas"
LimitReached ==
    Effective(max_areas) /\ Val(call).total_areas_processed >= Val(max_areas)

\* variant: the batch is emptied whether or not the write succeeded
CollectAndClear(i, ok) ==
    LET b == Append(queue, i)
        st == [stats EXCEPT !.crags_found = @ + 1]
        w == _upsert_batch(areas, st, logs, b, ok)
    IN  IF Len(b) >= batch_size
          THEN [queue |-> <<>>, areas |-> w.areas, stats |-> w.stats,
                logs |-> w.logs, raised |-> w.raised]
          ELSE [queue |-> b, areas |-> areas, stats |-> st, logs |-> logs,
                raised |-> FALSE]
\* an area with coordinates: batch.append(area), crags_found += 1, and the
\* batch is written when it has reached batch_size
Collect(i, ok) ==
    LET b == Append(queue, i)
        st == [stats EXCEPT !.crags_found = @ + 1]
        w == _upsert_batch(areas, st, logs, b, ok)
    IN  IF Len(b) >= batch_size
          THEN [queue |-> IF w.raised THEN b ELSE <<>>, areas |-> w.areas,
                stats |-> w.stats, logs |-> w.logs, raised |-> w.raised]
          ELSE [queue |-> b, areas |-> areas, stats |-> st, logs |-> logs,
                raised |-> FALSE]

openBetaRest == <<prog, unitVars, guide, pages, clean, visited, fetched, already,
                  failed_urls, snap, found, rendered, safetyVars>>

\* sync_all(max_areas) on a new service, up to the for loop over the states
OpenBetaStart ==
    /\ prog = "openbeta" /\ pc \in {"idle", "raised"} /\ runs < MaxRuns
    /\ runs' = runs + 1
    /\ max_areas' \in Budgets
    /\ states' = guide /\ sidx' = 1 /\ queue' = <<>> /\ stack' = <<>>
    /\ stats' = OpenBetaZeroStats
    /\ logs' = [batch_upserted |-> 0, batch_upsert_failed |-> 0]
    /\ call' = Some([op |-> "sync_all", total_areas_processed |-> 0,
                     outcome |-> "running"])
    /\ pc' = "states"
    /\ UNCHANGED <<areas, faults, openBetaRest>>

\* the next state: get_areas_from_listing(state_uuid) returns or raises
OpenBetaBeginState ==
    /\ prog = "openbeta" /\ pc = "states"
    /\ sidx <= Len(states) /\ ~LimitReached
    /\ \/ /\ stack' = <<Val(pages[states[sidx]]).links>>
          /\ pc' = "areas"
          /\ UNCHANGED <<stats, sidx, faults>>
       \/ /\ faults < MaxFaults /\ faults' = faults + 1
          /\ stats' = [stats EXCEPT !.errors = @ + 1]
          /\ sidx' = sidx + 1
          /\ UNCHANGED <<stack, pc>>
    /\ UNCHANGED <<areas, runs, max_areas, states, queue, logs, call, openBetaRest>>

\* one iteration of the loop over the areas of the state, up to the loop over
\* its sub_areas
OpenBetaArea ==
    /\ prog = "openbeta" /\ pc = "areas"
    /\ stack[1] # <<>> /\ ~LimitReached
    /\ \E wok, lok \in BOOLEAN :
        LET area == Head(stack[1])
            crag == Val(pages[area]).coords
            c == IF crag THEN Collect(area, wok)
                 ELSE [queue |-> queue, areas |-> areas, stats |-> stats,
                       logs |-> logs, raised |-> FALSE]
            used == (IF c.logs # logs /\ c.raised THEN 1 ELSE 0)
                      + (IF ~c.raised /\ ~lok THEN 1 ELSE 0)
        IN  /\ faults + used <= MaxFaults
            /\ faults' = faults + used
            /\ queue' = c.queue /\ areas' = c.areas /\ logs' = c.logs
            /\ call' = IF crag
                         THEN Some([Val(call) EXCEPT !.total_areas_processed = @ + 1])
                         ELSE call
            /\ IF c.raised
                 THEN \* except Exception: state_failed
                      /\ stats' = [c.stats EXCEPT !.errors = @ + 1]
                      /\ sidx' = sidx + 1 /\ stack' = <<>> /\ pc' = "states"
                 ELSE /\ stats' = [c.stats EXCEPT !.areas_processed = @ + 1]
                      /\ sidx' = sidx
                      /\ IF lok
                           THEN /\ stack' = <<Tail(stack[1]), Val(pages[area]).links>>
                                /\ pc' = "subs"
                           ELSE \* sub_areas_fetch_failed
                                /\ stack' = <<Tail(stack[1])>>
                                /\ pc' = "areas"
    /\ UNCHANGED <<runs, max_areas, states, openBetaRest>>

\* the loop over the areas has ended or was left at the limit
OpenBetaEndState ==
    /\ prog = "openbeta" /\ pc = "areas"
    /\ stack[1] = <<>> \/ LimitReached
    /\ stats' = [stats EXCEPT !.states_processed = @ + 1]
    /\ sidx' = sidx + 1 /\ stack' = <<>> /\ pc' = "states"
    /\ UNCHANGED <<areas, runs, max_areas, states, queue, faults, logs, call,
                   openBetaRest>>

\* one iteration of the loop over the sub_areas; a failed write is caught
\* with the failed requests and ends the loop
OpenBetaSubArea ==
    /\ prog = "openbeta" /\ pc = "subs"
    /\ stack[2] # <<>> /\ ~LimitReached
    /\ \E wok \in BOOLEAN :
        LET sub_area == Head(stack[2])
            crag == Val(pages[sub_area]).coords
            c == IF crag THEN Collect(sub_area, wok)
                 ELSE [queue |-> queue, areas |-> areas, stats |-> stats,
                       logs |-> logs, raised |-> FALSE]
            used == IF c.raised THEN 1 ELSE 0
        IN  /\ faults + used <= MaxFaults
            /\ faults' = faults + used
            /\ queue' = c.queue /\ areas' = c.areas /\ logs' = c.logs
            /\ call' = IF crag
                         THEN Some([Val(call) EXCEPT !.total_areas_processed = @ + 1])
                         ELSE call
            /\ IF c.raised
                 THEN /\ stats' = c.stats
                      /\ stack' = <<stack[1]>> /\ pc' = "areas"
                 ELSE /\ stats' = [c.stats EXCEPT !.areas_processed = @ + 1]
                      /\ stack' = <<stack[1], Tail(stack[2])>> /\ pc' = "subs"
    /\ UNCHANGED <<runs, max_areas, states, sidx, openBetaRest>>

\* the loop over the sub_areas has ended or was left at the limit
OpenBetaEndSubAreas ==
    /\ prog = "openbeta" /\ pc = "subs"
    /\ stack[2] = <<>> \/ LimitReached
    /\ stack' = <<stack[1]>> /\ pc' = "areas"
    /\ UNCHANGED <<areas, runs, max_areas, states, sidx, queue, stats, faults, logs,
                   call, openBetaRest>>

\* the loop over the states has ended: the remaining batch is written and
\* sync_all returns the statistics, or the write raises and sync_all with it
OpenBetaFinish ==
    /\ prog = "openbeta" /\ pc = "states"
    /\ sidx > Len(states) \/ LimitReached
    /\ IF queue = <<>>
         THEN /\ call' = Some([Val(call) EXCEPT !.outcome = "returned"])
              /\ pc' = "idle"
              /\ UNCHANGED <<areas, queue, stats, faults, logs>>
         ELSE \E ok \in BOOLEAN :
                LET w == _upsert_batch(areas, stats, logs, queue, ok)
                IN  /\ ok \/ faults < MaxFaults
                    /\ faults' = IF ok THEN faults ELSE faults + 1
                    /\ areas' = w.areas /\ stats' = w.stats /\ logs' = w.logs
                    /\ queue' = IF ok THEN <<>> ELSE queue
                    /\ call' = Some([Val(call) EXCEPT
                                       !.outcome = IF ok THEN "returned" ELSE "raised"])
                    /\ pc' = IF ok THEN "idle" ELSE "raised"
    /\ UNCHANGED <<runs, max_areas, states, sidx, stack, openBetaRest>>

InitOpenBeta ==
    /\ prog = "openbeta"
    /\ guide = <<1>> /\ areas = {} /\ call = None
    /\ \E coords \in [1..Len(Listings) -> BOOLEAN] :
          pages = [i \in UrlIds |->
                     IF i <= Len(Listings)
                       THEN Some([links |-> Listings[i], coords |-> coords[i]])
                       ELSE None]
    /\ pc = "idle" /\ runs = 0 /\ max_areas = None /\ clean = TRUE
    /\ visited = {} /\ fetched = NoFetches
    /\ already = {} /\ states = <<>> /\ sidx = 1 /\ queue = <<>>
    /\ stats = OpenBetaZeroStats /\ failed_urls = {} /\ faults = 0 /\ snap = None
    /\ logs = [batch_upserted |-> 0, batch_upsert_failed |-> 0]
    /\ found = {} /\ stack = <<>> /\ rendered = NoFetches
    /\ InitSafety
    /\ InitUnits

NextOpenBeta ==
    \/ OpenBetaStart \/ OpenBetaBeginState \/ OpenBetaArea \/ OpenBetaEndState
    \/ OpenBetaSubArea \/ OpenBetaEndSubAreas \/ OpenBetaFinish

SpecOpenBeta == InitOpenBeta /\ [][NextOpenBeta]_vars

(***************************************************************************)
(* The safety calculator over histories that reach every rule: the first   *)
(* crag has rows among three days ago, the latest day the ingest asks for  *)
(* and the day before it; the second crag has one heavy day or none.       *)
(***************************************************************************)
RecentDates == {Today - 3, Today - 5, Today - 6}

InitRecent ==
    /\ prog = "safety"
    /\ guide = <<1>> /\ areas \in AreaTables /\ call = None
    /\ pages = [i \in UrlIds |-> None]
    /\ pc = "idle" /\ runs = 0 /\ max_areas = None /\ clean = TRUE
    /\ visited = {} /\ fetched = NoFetches
    /\ already = {} /\ states = <<>> /\ sidx = 1 /\ queue = <<>>
    /\ stats = ZeroStats /\ failed_urls = {} /\ faults = 0
    /\ snap = Some(areas) /\ logs = NothingLogged
    /\ found = {} /\ stack = <<>> /\ rendered = NoFetches
    /\ total_7_days_mm = 0 /\ days_since_rain = None /\ status = None
    /\ precip \in {h1 \cup h2 :
                     h1 \in Histories({1}, RecentDates,
                                      {20, weekly_precip_caution_mm, 1500}),
                     h2 \in Histories({2}, {Today - 5}, {weekly_precip_unsafe_mm})}
    /\ wstats = ZeroWeatherStats /\ written = NothingWritten
    /\ cstats = ZeroSafetyStats /\ session = None
    /\ provider = <<>> /\ response = None
    /\ InitUnits

SpecRecent == InitRecent /\ [][NextCalculator]_vars

(***************************************************************************)
(* The crawl commands over the knot with calculate-safety run between      *)
(* them, over the precipitation rows another writer has stored for the     *)
(* first two areas.                                                        *)
(***************************************************************************)
InitRecrawl ==
    /\ prog = "recrawl"
    /\ guide = <<1>> /\ areas = {} /\ call = None
    /\ pages = [i \in 1..Len(Knot) |-> Some([links |-> Knot[i], coords |-> TRUE])]
    /\ pc = "idle" /\ runs = 0 /\ max_areas = None /\ clean = TRUE
    /\ visited = {} /\ fetched = NoFetches
    /\ already = {} /\ states = <<>> /\ sidx = 1 /\ queue = <<>>
    /\ stats = ZeroStats /\ failed_urls = {} /\ faults = 0 /\ snap = None
    /\ logs = NothingLogged
    /\ found = {} /\ stack = <<>> /\ rendered = NoFetches
    /\ total_7_days_mm = 0 /\ days_since_rain = None /\ status = None
    /\ precip \in Histories({1, 2}, {Today - 5}, {20, 1500})
    /\ wstats = ZeroWeatherStats /\ written = NothingWritten
    /\ cstats = ZeroSafetyStats /\ session = None
    /\ provider = <<>> /\ response = None
    /\ InitUnits

NextRecrawl ==
    \/ NextCrawl
    \/ StartCalculateAll \/ CalculateStep \/ FinishCalculateAll

SpecRecrawl == InitRecrawl /\ [][NextRecrawl]_vars

(***************************************************************************)
(* The forecast, over a history of the latest days the ingest can have     *)
(* stored (it asks for no day later than 5 days ago) and every forecast of *)
(* MaxForecastDays days.                                                   *)
(***************************************************************************)
ForecastHistoryDates == {Today - 5, Today - 6, Today - 7}

InitForecast ==
    /\ prog = "forecast"
    /\ guide = <<1>> /\ call = None
    /\ areas = {AreaRow(1, TRUE, None), AreaRow(2, TRUE, Some("SAFE")),
                AreaRow(3, FALSE, None)}
    /\ InitCrawl
    /\ total_7_days_mm = 0 /\ days_since_rain = None /\ status = None
    /\ precip \in Histories({1}, ForecastHistoryDates, {10, 1100})
    /\ wstats = ZeroWeatherStats /\ written = NothingWritten
    /\ cstats = ZeroSafetyStats /\ session = None
    /\ provider \in [1..MaxForecastDays -> {None, Some(20), Some(1100)}]
    /\ response = None
    /\ InitUnits

NextForecast == get_crag_forecast \/ get_forecast \/ estimate_safe_date

SpecForecast == InitForecast /\ [][NextForecast]_vars

(***************************************************************************)
(* Properties of the crawl.                                                *)
(***************************************************************************)
\* C1: within one run of sync_all or sync_failed (one scraper) a page fetch
\* is started at most once for every normalized url, whether or not the
\* fetch fails, and the legacy crawler renders every normalized url at most
\* once in a run
C1_FetchedAtMostOnce ==
    \A k \in 0..NumUrls : fetched[k] <= 1 /\ rendered[k] <= 1

\* a run in which an entry of the queue was reached a second time and was
\* answered without a fetch
C1_SecondVisitWithoutFetch ==
    /\ prog = "jobs" /\ pc = "queue"
    /\ stats.areas_processed > Cardinality({k \in UrlIds : fetched[k] >= 1})
    /\ \E k \in UrlIds : fetched[k] = 1

\* the columns of a row that a clean second run must leave alone
Content(tbl) ==
    {[id |-> r.id, url |-> r.url, name |-> r.name, parent_id |-> r.parent_id,
      latitude |-> r.latitude, longitude |-> r.longitude,
      scrape_failed |-> r.scrape_failed] : r \in tbl}

\* two runs of sync_all without budget have ended and nothing has failed
TwoCleanRuns == prog = "jobs" /\ pc = "idle" /\ runs = 2 /\ clean /\ ~IsNone(snap)

\* C2: a second sync_all over the unchanged catalog, with no fetch or
\* database failure, leaves name, parent_id, latitude, longitude and
\* scrape_failed of every row as they were after the first run
C2_SecondRunIdempotent ==
    TwoCleanRuns => Content(areas) = Content(Val(snap))

\* the row of url in the table, if any
RowOf(tbl, url) == CHOOSE r \in RowsWithUrl(tbl, url) : TRUE

\* following parent_id from id reaches a row without parent in n steps
RECURSIVE ReachesRoot(_, _, _)
ReachesRoot(tbl, id, n) ==
    LET rows == RowsWithId(tbl, id)
    IN  IF rows = {} THEN FALSE
        ELSE LET r == CHOOSE x \in rows : TRUE
             IN  \/ IsNone(r.parent_id)
                 \/ n > 0 /\ ReachesRoot(tbl, Val(r.parent_id), n - 1)

\* C4: after any sequence of sync_all and sync_failed runs no row is its own
\* parent and following parent_id from any row reaches a row without parent
C4_ParentGraphAcyclic ==
    \A r \in areas :
        /\ r.parent_id # Some(r.id)
        /\ ReachesRoot(areas, r.id, Cardinality(areas))

\* a state whose own page has coordinates was stored by the guarded upsert,
\* with a row two levels below it, and a retry has rewritten a failed row
C4_GuardedStateRow ==
    /\ prog = "jobs"
    /\ \E r \in areas :
        /\ r.url = Canon(guide[1]) /\ ~IsNone(r.latitude) /\ IsNone(r.parent_id)
        /\ \E c, d \in areas : c.parent_id = Some(r.id) /\ d.parent_id = Some(c.id)

\* the three-page tree: the state CA (area 1) lists Bishop (area 2), whose
\* page has no coordinates and lists Buttermilks (area 3), whose page has
\* coordinates
ThreePageTree ==
    /\ guide = <<1>>
    /\ pages[1] = Some([links |-> <<2>>, coords |-> FALSE])
    /\ pages[2] = Some([links |-> <<3>>, coords |-> FALSE])
    /\ pages[3] = Some([links |-> <<>>, coords |-> TRUE])

\* C5: after one sync_all over the three-page tree there are three rows, only
\* Buttermilks has coordinates, Bishop's parent is CA and Buttermilks' parent
\* is Bishop
C5_ParentIsLinkingPage ==
    (prog = "jobs" /\ pc = "idle" /\ runs = 1 /\ clean /\ ThreePageTree) =>
        /\ Cardinality(areas) = 3
        /\ \A r \in areas : ~IsNone(r.latitude) <=> r.url = Canon(3)
        /\ RowOf(areas, Canon(2)).parent_id =
               Some(generate_deterministic_uuid(Canon(1)))
        /\ RowOf(areas, Canon(3)).parent_id =
               Some(generate_deterministic_uuid(Canon(2)))

\* C3: after any sequence of _upsert_area calls the table holds at most one
\* row per url and every row's id is the deterministic id of its url; a call
\* that hits an existing key (and neither loses its connection nor names a
\* missing parent) updates that row in place, and no call ends in a
\* duplicate-key error
C3_OneRowPerUrl ==
    /\ \A r, q \in areas : r.url = q.url => r = q
    /\ \A r \in areas : r.id = generate_deterministic_uuid(r.url)
    /\ ~IsNone(call) =>
        LET c == Val(call)
        IN  /\ (c.hit /\ c.logged \notin {"OperationalError", "ForeignKeyError"}) =>
                /\ c.logged = "none" /\ c.ret
                /\ Cardinality(areas) = c.rows
                /\ \E r \in areas :
                    /\ r.url = c.url /\ r.name = c.name
                    /\ r.parent_id = c.parent_id
                    /\ r.latitude = c.latitude /\ r.longitude = c.longitude
                    /\ ~r.scrape_failed
            /\ c.logged # "DuplicateKeyError"

\* a call has found the row of its url with other values and has rewritten it
C3_UpdatedInPlace ==
    /\ prog = "upsert" /\ ~IsNone(call)
    /\ Val(call).hit /\ Val(call).ret /\ Cardinality(areas) = NumUrls
    /\ \E r \in areas :
        /\ r.url = Val(call).url /\ ~IsNone(r.latitude)
        /\ IsNone(r.safety_status)

(***************************************************************************)
(* Properties of the safety rules.                                         *)
(***************************************************************************)
\* the k-th rule of the decision list: its condition and its verdict
RuleHolds(k, total, days) ==
    CASE k = 1 -> total >= 2500
      [] k = 2 -> ~IsNone(days) /\ Val(days) <= 1
      [] k = 3 -> total >= 1000
      [] k = 4 -> ~IsNone(days) /\ Val(days) <= 3
      [] OTHER -> TRUE
RuleVerdict(k) == <<"UNSAFE", "UNSAFE", "CAUTION", "CAUTION", "SAFE">>[k]

RECURSIVE FirstMatch(_, _, _)
FirstMatch(k, total, days) ==
    IF RuleHolds(k, total, days) THEN RuleVerdict(k)
                                 ELSE FirstMatch(k + 1, total, days)

ClassifiedC7Input ==
    /\ prog = "rules" /\ ~IsNone(status)
    /\ total_7_days_mm = 2490 /\ days_since_rain = Some(5)

\* C7 as stated: with the default thresholds classify(24.9, 5) is SAFE
C7_ClassifySafe ==
    ClassifiedC7Input => Val(status).jobs = "SAFE" /\ Val(status).api = "SAFE"

\* C7: with the default thresholds classify(24.9, 5) is CAUTION, since
\* 24.9 mm is at least the caution threshold of 10 mm
C7_ClassifyCaution ==
    ClassifiedC7Input =>
        Val(status).jobs = "CAUTION" /\ Val(status).api = "CAUTION"

\* the classifiers have answered for 24.9 mm and 5 days
C7_Classified == ClassifiedC7Input /\ Val(status).api # "UNSAFE"

(***************************************************************************)
(* Properties of the precipitation ingest.                                 *)
(***************************************************************************)
\* C8: after any sequence of precipitation upserts, every (area, day) key
\* for which an upsert was issued has exactly one row, which carries the
\* precipitation and the temperatures of the last upsert issued for the key
C8_LastUpsertStored ==
    prog = "weather" =>
        \A key \in Keys :
            ~IsNone(written[key]) =>
                \E r \in precip :
                    /\ r.area_id = key[1] /\ r.recorded_at = key[2]
                    /\ r.precipitation_mm = Val(written[key]).precipitation_mm
                    /\ r.temperature_max_c = Val(written[key]).temperature_max_c
                    /\ r.temperature_min_c = Val(written[key]).temperature_min_c
                    /\ \A q \in precip :
                         (q.area_id = key[1] /\ q.recorded_at = key[2]) => q = r

(***************************************************************************)
(* Properties of the safety calculator.                                    *)
(***************************************************************************)
\* the area has no precipitation row in the lookback window
NoRecords(id) ==
    ~\E r \in precip : r.area_id = id /\ r.recorded_at > Today - 19

StoredStatus(tbl, id) == (CHOOSE r \in tbl : r.id = id).safety_status

\* C9: a crag without precipitation records in the lookback window keeps its
\* stored safety_status through calculate_all and calculate_for_crag, and
\* calculate_all counts it in no_data and in none of status_safe,
\* status_caution and status_unsafe
C9_NoDataLeavesStatus ==
    prog = "safety" =>
        /\ \A r \in areas :
             NoRecords(r.id) => r.safety_status = StoredStatus(Val(snap), r.id)
        /\ ~IsNone(session) =>
             LET se == Val(session)
                 dry == {id \in se.done : NoRecords(id)}
             IN  /\ cstats.no_data = Cardinality(dry)
                 /\ cstats.status_safe + cstats.status_caution
                      + cstats.status_unsafe = Cardinality(se.done \ dry)
                 /\ \A d \in se.dirty : d[1] \notin dry
        /\ (~IsNone(response) /\ Val(response).error = "none"
              /\ NoRecords(Val(response).crag_id)) =>
             IsNone(Val(response).status)

\* calculate_all has ended: a crag without records, stored as SAFE, was
\* counted in no_data while the other crag was classified CAUTION
C9_CountedInNoData ==
    /\ prog = "safety" /\ ~IsNone(session) /\ ~Val(session).open
    /\ cstats.no_data = 1 /\ cstats.status_caution = 1
    /\ \E r \in areas :
        /\ r.id \in Val(session).done /\ NoRecords(r.id)
        /\ r.safety_status = Some("SAFE")
        /\ \E q \in precip : q.area_id = r.id

(***************************************************************************)
(* Properties of the forecast.                                             *)
(***************************************************************************)
\* the precipitation the working timeline of day d holds for day x: the row
\* of the history, or the forecast of a day from today up to d
OnTimeline(crag_id, d, x) ==
    IF x >= Today
      THEN IF x <= d /\ ~IsNone(provider[x - Today + 1])
             THEN Val(provider[x - Today + 1]) ELSE 0
      ELSE LET rows == {r \in precip : /\ r.area_id = crag_id
                                       /\ r.recorded_at = x
                                       /\ Today - x <= 12}
           IN  IF rows = {} THEN 0
               ELSE (CHOOSE r \in rows : TRUE).precipitation_mm

RECURSIVE SumOver(_, _, _, _)
SumOver(crag_id, d, from, to) ==
    IF from > to THEN 0
    ELSE OnTimeline(crag_id, d, from) + SumOver(crag_id, d, from + 1, to)

\* T: the sum over the days d-7..d, each day once
WindowTotal(crag_id, d) == SumOver(crag_id, d, d - 7, d)

\* R: the distance from d to the latest day of the window with more than
\* 0.1 mm, or null
WindowDaysSinceRain(crag_id, d) ==
    LET wet == {x \in (d - 7)..d : OnTimeline(crag_id, d, x) > 10}
    IN  IF wet = {} THEN None
        ELSE Some(d - (CHOOSE x \in wet : \A y \in wet : y <= x))

\* the response to the same request had the provider reported n days only
Truncated(crag_id, n, k) ==
    DayForecastResponse(recent_precip(precip, crag_id), ForecastEntries(n), k)

\* C10: the projected status of every forecast day d is classify(T, R) over
\* the history and the forecast days up to d, with T the sum over the window
\* ending on d, each date once, and R the distance to the latest rain in that
\* window; it does not depend on the forecast of later days
C10_ForecastDayStatus ==
    (prog = "forecast" /\ ~IsNone(response) /\ Val(response).error = "none") =>
        LET res == Val(response)
        IN  \A k \in 1..Len(res.days) :
              LET d == Today + (k - 1)
              IN  /\ res.days[k].date = d
                  /\ res.days[k].predicted_status =
                       FirstMatch(1, WindowTotal(res.crag_id, d),
                                  WindowDaysSinceRain(res.crag_id, d))
                  /\ res.days[k] = Truncated(res.crag_id, k, k)

\* a forecast of several days in which a day before a rainy forecast day is
\* projected SAFE, over a history with rain
C10_SafeBeforeRain ==
    /\ prog = "forecast" /\ ~IsNone(response) /\ Val(response).error = "none"
    /\ Val(response).op = "get_crag_forecast"
    /\ Len(Val(response).days) = MaxForecastDays
    /\ \E r \in precip : r.precipitation_mm > 10
    /\ \E k \in 1..(MaxForecastDays - 1) :
        /\ Val(response).days[k].predicted_status = "SAFE"
        /\ Val(response).days[k + 1].precipitation_mm > 10
        /\ Val(response).days[k + 1].predicted_status = "UNSAFE"

\* a forecast request or an estimate has answered without error
Answered ==
    /\ prog = "forecast" /\ ~IsNone(response) /\ Val(response).error = "none"
    /\ Val(response).op \in {"get_crag_forecast", "estimate_safe_date"}

C12_FailedFetchMarked ==
    (prog = "jobs" /\ pc = "idle" /\ runs = 1) =>
        \A url \in logs.area_fetch_failed :
            \A r \in RowsWithUrl(areas, url) : r.scrape_failed

\* the page loads of the fetch_page call in progress or just ended
Attempts == IF IsNone(fetch) THEN <<>> ELSE Val(fetch).trace
EndedWith(st) == prog = "fetch" /\ ~IsNone(fetch) /\ Val(fetch).status = st

\* C13 as stated: one call of fetch_page makes at most 3 page loads
C13_AtMostThreeLoads == Len(Attempts) <= 3

\* C13: one call of fetch_page makes at most max_retries + 1 = 4 page
\* loads; when all of them fail with a crash-class error the last error is
\* raised, and an error that is not crash-class is raised at once, with no
\* retry, backoff or browser restart
C13_RetryCap ==
    /\ Len(Attempts) <= max_retries + 1
    /\ \A k \in 1..Len(Attempts) :
         LET a == Attempts[k]
         IN  /\ (a.outcome # "ok" /\ a.outcome \notin crash_indicators) =>
                   /\ k = Len(Attempts) /\ EndedWith("raised")
                   /\ IsNone(a.backoff) /\ ~a.restarted
                   /\ scraper._browser = Some(a.browser)
             /\ (k < Len(Attempts)) =>
                   /\ a.outcome \in crash_indicators
                   /\ a.restarted /\ a.backoff = Some(Backoff(k - 1))
    /\ (Len(Attempts) = max_retries + 1) =>
         \/ EndedWith("returned") /\ Attempts[Len(Attempts)].outcome = "ok"
         \/ EndedWith("raised") /\ Attempts[Len(Attempts)].outcome # "ok"

\* a call whose every page load failed with a crash-class error has made the
\* fourth load and raised its error
C13_FourthLoadRaises ==
    /\ EndedWith("raised") /\ Len(Attempts) = max_retries + 1
    /\ \A k \in 1..Len(Attempts) : Attempts[k].outcome \in crash_indicators

\* C14: a browser that has crashed is never used for a later page load
C14_NoLoadOnCrashedBrowser ==
    \A k \in 1..Len(Attempts) : ~Attempts[k].stale

\* C15: both url normalizers are idempotent on every raw link: applied to
\* its own result, each returns that result
C15_NormalizeIdempotent ==
    (prog = "normalize") =>
        /\ Len(Val(keys).legacy) >= 2 => Val(keys).legacy[2] = Val(keys).legacy[1]
        /\ Len(Val(keys).scraper) >= 2 => Val(keys).scraper[2] = Val(keys).scraper[1]

\* the columns a write sets, for the row of the url the writes are about
Columns(tbl, url) ==
    LET r == RowOf(tbl, url)
    IN  <<r.name, r.parent_id, r.latitude, r.longitude>>

\* C16: once every write a run issues for one url has been delivered, in
\* any order and any of them more than once, the row has the name, parent,
\* latitude and longitude it has when they are delivered once in the order
\* of the run
C16_OrderAndDuplicatesIrrelevant ==
    (prog = "reorder" /\ \A k \in 1..Len(writes.issued) : writes.delivered[k] >= 1) =>
        Columns(areas, writes.issued[1].url)
          = Columns(ApplyUpserts(InitialParents, writes.issued, 1, 0),
                    writes.issued[1].url)

\* C17: a row has scraped_at set only if the page of its own url has been
\* fetched successfully before; a placeholder row keeps scraped_at NULL
C17_ScrapedAtMeansFetched ==
    (prog = "jobs") =>
        \A r \in areas : ~IsNone(r.scraped_at) => ~IsNone(pages[r.url.id])

\* the pages fetched by the service of the current run
PagesFetched == Cardinality({k \in UrlIds : fetched[k] > 0})

\* C18: with a budget N >= 0, N = 0 included, a run fetches at most N area
\* pages, areas_processed never exceeds N, and at the budget no entry is
\* dequeued and no state is started
C18_BudgetBoundsRun ==
    (prog = "jobs" /\ pc \in {"states", "queue"} /\ ~IsNone(max_areas)) =>
        /\ stats.areas_processed <= Val(max_areas)
        /\ PagesFetched <= Val(max_areas)
        /\ (stats.areas_processed >= Val(max_areas)) =>
              ~ENABLED (VisitEntry \/ SkipEntry \/ BeginState)

\* C19: every failed page fetch and every failed upsert during the
\* processing of queue entries has incremented stats.errors
C19_FailuresCounted ==
    (prog = "jobs" /\ pc \in {"states", "queue"}) =>
        stats.errors >= Cardinality(logs.area_fetch_failed) + logs.area_upsert_failed

\* C20: no row with coordinates is the parent of another row, and no row
\* without coordinates has a safety_status
C20_CoordinatesOnlyOnLeaves ==
    (prog = "jobs") =>
        \A r \in areas :
            /\ (~IsNone(r.latitude) /\ ~IsNone(r.longitude)) =>
                  ~\E c \in areas : c.id # r.id /\ c.parent_id = Some(r.id)
            /\ (IsNone(r.latitude) \/ IsNone(r.longitude)) => IsNone(r.safety_status)

\* the names of a hierarchy from the outermost node to the innermost
NamesOf(h) == [k \in 1..Len(h) |-> LinkText(h[k])]

\* C21: format_location returns the names of a nested hierarchy from the
\* outermost to the innermost joined by ' > ', and 'Unknown' for None and
\* for the empty dict
C21_FormatLocation ==
    (prog = "location" /\ ~IsNone(call) /\ Val(call).op = "format_location") =>
        LET c == Val(call)
        IN  /\ c.raised = "imported"
            /\ c.location =
                 Some(IF IsNone(c.hierarchy) \/ c.hierarchy = Some(<<>>)
                        THEN <<"Unknown">>
                        ELSE Join(NamesOf(Val(c.hierarchy))))

\* C22: the queue of a traversal never holds two entries for the same
\* normalized url
C22_NoDuplicateQueueEntry ==
    (prog = "jobs") =>
        \A a, b \in 1..Len(queue) :
            a # b => _normalize_url(queue[a].url) # _normalize_url(queue[b].url)

\* in the chain the page of url k is found k - 1 links below the state
ChainDepth(url) == url.id - 1

\* C23: no queue entry deeper than max_depth is created, no row is written
\* for a link found on a page at depth max_depth, and no page deeper than
\* max_depth is fetched
C23_NothingBeyondMaxDepth ==
    (prog = "chain") =>
        /\ \A k \in 1..Len(queue) : queue[k].depth <= max_depth
        /\ \A r \in areas : ChainDepth(r.url) <= max_depth
        /\ \A i \in 1..ChainLen : ChainDepth(Canon(i)) > max_depth => fetched[i] = 0

\* the urls page p of the site links to
LinksOf(p) ==
    IF IsNone(pages[p]) THEN {}
    ELSE {Val(pages[p]).links[k] : k \in 1..Len(Val(pages[p]).links)}

\* the urls within n links of root over the links of the pages in from
RECURSIVE Within(_, _, _)
Within(root, from, n) ==
    IF n = 0 THEN {root}
    ELSE LET near == Within(root, from, n - 1)
         IN  near \cup UNION {LinksOf(p) : p \in near \cap from}
\* the link distance of url i from root over the links of the pages in from
Distance(root, from, i) ==
    CHOOSE n \in 0..LastUrl :
        /\ i \in Within(root, from, n)
        /\ \A m \in 0..(n - 1) : i \notin Within(root, from, m)
Reachable(root, from, i) == i \in Within(root, from, LastUrl)

\* the pages of the site, and the pages the running service has loaded and
\* processed: visited, the load not failed, the processing not failed
SitePages == DOMAIN pages
LoadedPages ==
    {i \in DOMAIN pages :
        /\ Canon(i) \in visited
        /\ Canon(i) \notin logs.area_fetch_failed
        /\ Canon(i) \notin logs.area_failed}

\* a step of the traversal of one state that dequeues an entry
Dequeues == prog = "diamond" /\ pc = "queue" /\ pc' = "queue" /\ queue # <<>>
\* a step that dequeues an entry and loads its page
Reaches == Dequeues /\ fetched' # fetched

\* C24 as stated: the depths of successively dequeued entries never
\* decrease and a page is first reached at its link distance from the root
\* on the site
C24_BreadthFirstOnSite ==
    [][/\ (Dequeues /\ queue' # <<>>) => Head(queue').depth >= Head(queue).depth
       /\ Reaches =>
            Head(queue).depth =
              Distance(states[sidx].url.id, SitePages, Head(queue).url.id)]_vars

\* C24: the depths of successively dequeued entries never decrease and a
\* page is first reached at its link distance from the root over the links
\* of the pages loaded in the traversal
C24_BreadthFirstOverLoaded ==
    [][/\ (Dequeues /\ queue' # <<>>) => Head(queue').depth >= Head(queue).depth
       /\ Reaches =>
            /\ Reachable(states[sidx].url.id, LoadedPages, Head(queue).url.id)
            /\ Head(queue).depth =
                 Distance(states[sidx].url.id, LoadedPages, Head(queue).url.id)]_vars

\* area 5 is being reached three links below the state, after the load of
\* area 2 failed
C24_ReachedTheLongWay ==
    /\ prog = "diamond" /\ pc = "queue" /\ queue # <<>>
    /\ Head(queue).url.id = 5 /\ Head(queue).depth = 3
    /\ Canon(5) \notin visited
    /\ Canon(2) \in logs.area_fetch_failed

\* C25: on a site with cycles, self-links and areas linked from many
\* pages, under every pattern of failures, a started sync_all ends: the
\* queue of every state drains; and no url is fetched twice by the run, so
\* that the page loads are at most max_retries + 1 per distinct url
C25_SyncAllTerminates ==
    /\ [](prog = "knot" => \A k \in DOMAIN fetched : fetched[k] <= 1)
    /\ (prog = "knot" /\ pc = "queue") ~> (pc = "states" /\ queue = <<>>)
    /\ (prog = "knot" /\ pc \in {"states", "queue", "raised"}) ~> (pc = "idle")

\* the queue of a state has drained after every area was visited and more
\* entries than there are areas were processed
C25_DrainedAfterCycles ==
    /\ prog = "knot" /\ pc = "queue" /\ queue = <<>>
    /\ visited = {Canon(i) : i \in 1..Len(Knot)}
    /\ stats.areas_processed > Len(Knot)

\* the entry at the head of the queue is of a url scraped in an earlier run
HeadAlreadyScraped ==
    /\ Crawling /\ pc = "queue" /\ queue # <<>> /\ ~BudgetReached
    /\ ~(Head(queue).depth > max_depth)
    /\ _normalize_url(Head(queue).url) \in already

\* C26: when the dequeued url was already scraped in an earlier run, its
\* page is not fetched again, but its children are still processed: every
\* link of its page that was not visited is queued one level below it
C26_ChildrenOfScrapedProcessed ==
    [][HeadAlreadyScraped =>
          /\ fetched' = fetched
          /\ \A l \in LinksOf(Head(queue).url.id) :
                ~was_visited(visited, Canon(l)) =>
                    \E k \in DOMAIN queue' :
                        /\ k >= Len(queue)
                        /\ queue'[k].url = Canon(l)
                        /\ queue'[k].depth = Head(queue).depth + 1]_vars

\* a step of the retry pass: one failed url is fetched again
RetryPassStep == Crawling /\ pc = "retry" /\ failed_urls' # failed_urls

\* a step of sync_all that marks the dequeued area failed
MarksFailed == Crawling /\ pc = "queue" /\ stats'.errors = stats.errors + 1

\* every row keeps its parent over the step
ParentsKept ==
    \A r \in areas : \A n \in areas' : n.id = r.id => n.parent_id = r.parent_id

\* the rows change in no field other than scrape_failed over the step
OnlyScrapeFailedChanges ==
    /\ \A r \in areas : \E n \in areas' : n = [r EXCEPT !.scrape_failed = n.scrape_failed]
    /\ \A n \in areas' : \E r \in areas : n = [r EXCEPT !.scrape_failed = n.scrape_failed]

\* C27: the retry pass keeps the parent of every area it fetches again, and
\* marking an area failed changes no field other than scrape_failed
C27_RetryKeepsParent ==
    [][/\ RetryPassStep => ParentsKept
       /\ MarksFailed => OnlyScrapeFailedChanges]_vars

\* the raw links that differ from u only in query string, fragment or a
\* trailing slash
Variants(u) == {v \in RawLinks : v.abs = u.abs /\ rstrip(v.path) = rstrip(u.path)}

\* C28: two raw links that differ only in query string, fragment or a
\* trailing slash have the same key, under the legacy crawler's
\* normalize_url and under the scraper's _normalize_url
C28_VariantsShareKey ==
    (prog = "normalize") =>
        /\ Val(keys).legacy # <<>> =>
              \A v \in Variants(Val(link)) : normalize_url_text(v) = Val(keys).legacy[1]
        /\ Val(keys).scraper # <<>> =>
              \A v \in Variants(Val(link)) : _normalize_url_text(v) = Val(keys).scraper[1]

\* a step of fetch_page: one page-load attempt is added to the trace
LoadAttempt ==
    /\ prog = "fetch" /\ Running
    /\ Len(Val(fetch').trace) = Len(Val(fetch).trace) + 1

\* the attempt the step has added
ThisAttempt == Val(fetch').trace[Len(Val(fetch').trace)]

\* C29: the request counter counts every page-load attempt, retries
\* included, and no restart resets it; the load at every multiple of 25 is
\* on a context created for it; no context opens more than 25 pages
C29_ContextRecycled ==
    /\ [][scraper'._request_count =
              scraper._request_count + (IF LoadAttempt THEN 1 ELSE 0)]_vars
    /\ [][(LoadAttempt /\ scraper'._request_count % context_recycle_requests = 0)
              => ThisAttempt.context > scraper.contexts]_vars
    /\ [](prog = "fetch" => scraper.opened <= context_recycle_requests)

\* a context has served the 25 loads from a multiple of 25 to the next, on
\* a scraper whose browser was restarted before
C29_FullContextAfterRestart ==
    /\ prog = "fetch"
    /\ scraper.opened = context_recycle_requests
    /\ scraper._request_count = 2 * context_recycle_requests - 1
    /\ scraper.launched > 1

\* the statuses the API's forecast loop gives the days of a forecast of the
\* crag, from the stored history and the provider's answer
ApiStatuses(crag_id, days) ==
    [k \in 1..days |->
        DayForecastResponse(recent_precip(precip, crag_id), ForecastEntries(days),
                            k).predicted_status]

\* C30: calculate_safety_status and _apply_rules return the same status
\* for every total and every days since rain, and for the same history and
\* forecast SafetyCalculator.get_forecast gives every day the status the
\* API's forecast loop gives it
C30_ApiAndJobsAgree ==
    /\ (prog = "rules" /\ ~IsNone(status)) => Val(status).jobs = Val(status).api
    /\ (/\ prog = "forecast" /\ ~IsNone(response)
        /\ Val(response).op = "get_forecast"
        /\ \E r \in RowsWithId(areas, Val(response).crag_id) : ~IsNone(r.latitude))
          => /\ Val(response).error = "none"
             /\ \E days \in 1..MaxForecastDays :
                   /\ Len(Val(response).days) = days
                   /\ \A k \in 1..days :
                         Val(response).days[k].predicted_status
                             = ApiStatuses(Val(response).crag_id, days)[k]

\* the answer of estimate_safe_date the claim describes, for the statuses
\* projected for the days of the forecast
SafeDateClaimed(statuses) ==
    LET safe == {k \in 1..Len(statuses) : statuses[k] = "SAFE"}
    IN  IF safe = {} \/ 1 \in safe THEN None
        ELSE Some(Today + (CHOOSE k \in safe : \A j \in safe : k <= j) - 1)

\* C31: estimate_safe_date of a crag returns None when the first projected
\* day is SAFE and when no projected day is SAFE, and otherwise the date of
\* the first projected SAFE day
C31_EstimateSafeDate ==
    (/\ prog = "forecast" /\ ~IsNone(response)
     /\ Val(response).op = "estimate_safe_date"
     /\ \E r \in RowsWithId(areas, Val(response).crag_id) : ~IsNone(r.latitude))
        => /\ Val(response).error = "none"
           /\ Val(response).estimated_safe_date
                = SafeDateClaimed(ApiStatuses(Val(response).crag_id, MaxForecastDays))

\* C32: once a row of ods_areas has latitude and longitude, no step of the
\* crawl commands sets them back to null
C32_CoordinatesNeverLost ==
    [][Crawling =>
          \A r \in areas : \A n \in areas' :
              (n.id = r.id /\ ~IsNone(r.latitude) /\ ~IsNone(r.longitude))
                  => (~IsNone(n.latitude) /\ ~IsNone(n.longitude))]_vars

LinkedFromCatalog ==
    {guide[k] : k \in 1..Len(guide)} \cup UNION {LinksOf(p) : p \in DOMAIN pages}

\* a second run, a sync_all without budget in which nothing has failed, has
\* processed its last state
ResumedRunEnded ==
    /\ prog = "jobs" /\ runs = 2 /\ pc = "states" /\ sidx > Len(states)
    /\ states # <<>>
    /\ ~Effective(max_areas)
    /\ logs = NothingLogged /\ stats.errors = 0

\* C34: a later sync_all without budget and without failures fetches the
\* page of every area that an earlier run discovered and did not fetch and
\* that the catalog still links
C34_CrawlResumes ==
    ResumedRunEnded =>
        \A r \in areas :
            r.url.id \in LinkedFromCatalog => ~IsNone(pages[r.url.id])

\* the crags whose pending status is st
Pending(st) == {d \in Val(session).dirty : d[2] = st}

\* C35: at every iteration boundary of calculate_all the four tallies add
\* up to crags_processed, every crag with coordinates is counted at most
\* once and, at the end, once; a crag is given a new status exactly when it
\* is counted in a status tally, and the commit stores exactly these
C35_TalliesAndStatuses ==
    /\ [](prog = "safety" /\ ~IsNone(session) =>
            LET se == Val(session)
                crags == {r.id : r \in {x \in areas : ~IsNone(x.latitude)}}
            IN  /\ cstats.status_safe + cstats.status_caution
                     + cstats.status_unsafe + cstats.no_data = cstats.crags_processed
                /\ cstats.crags_processed = Cardinality(se.done)
                /\ se.done \cap se.todo = {} /\ se.done \cup se.todo = crags
                /\ cstats.status_safe = Cardinality(Pending("SAFE"))
                /\ cstats.status_caution = Cardinality(Pending("CAUTION"))
                /\ cstats.status_unsafe = Cardinality(Pending("UNSAFE"))
                /\ \A d \in se.dirty : d[1] \in se.done
                /\ \A d, e \in se.dirty : d[1] = e[1] => d = e)
    /\ [][(prog = "safety" /\ SessionOpen /\ ~SessionOpen') =>
            \A r \in areas : \E n \in areas' :
                /\ n.id = r.id
                /\ IF \E d \in Val(session).dirty : d[1] = r.id
                     THEN \E d \in Val(session).dirty :
                              d[1] = r.id /\ n.safety_status = Some(d[2])
                     ELSE n.safety_status = r.safety_status]_vars

\* calculate_all has ended with one crag counted SAFE and the other
\* CAUTION, and the rows hold these statuses
C35_BothClassified ==
    /\ prog = "safety" /\ ~IsNone(session) /\ ~Val(session).open
    /\ cstats.crags_processed = 2
    /\ cstats.status_safe = 1 /\ cstats.status_caution = 1
    /\ \A d \in Val(session).dirty :
          \E r \in areas : r.id = d[1] /\ r.safety_status = Some(d[2])

\* C36: with SAFE < CAUTION < UNSAFE, under every settings and for the API's
\* constants: a larger total never gives a lower status, a smaller non-null
\* days_since_rain never gives a lower status, and null in place of a
\* non-null days_since_rain never gives a higher status
Severity(st) == CASE st = "SAFE" -> 0 [] st = "CAUTION" -> 1 [] st = "UNSAFE" -> 2
C36_ClassifierMonotone ==
    (prog = "settings" /\ ~IsNone(status)) =>
        LET cfg == Val(status).settings
            t == total_7_days_mm
            d == days_since_rain
        IN  /\ \A t2 \in Totals :
                  t2 >= t =>
                     /\ Severity(_apply_rules_with(cfg, t2, d)) >= Severity(Val(status).jobs)
                     /\ Severity(calculate_safety_status(t2, d)) >= Severity(Val(status).api)
            /\ ~IsNone(d) =>
                  /\ \A d2 \in 0..Val(d) :
                        /\ Severity(_apply_rules_with(cfg, t, Some(d2)))
                              >= Severity(Val(status).jobs)
                        /\ Severity(calculate_safety_status(t, Some(d2)))
                              >= Severity(Val(status).api)
                  /\ Severity(_apply_rules_with(cfg, t, None)) <= Severity(Val(status).jobs)
                  /\ Severity(calculate_safety_status(t, None)) <= Severity(Val(status).api)
\* a calculator whose thresholds are out of order classified a dry day with a
\* total between them, and a larger total and a smaller days_since_rain exist
C36_UnorderedSettingsClassified ==
    /\ prog = "settings" /\ ~IsNone(status) /\ ~IsNone(days_since_rain)
    /\ Val(status).settings.weekly_precip_caution_mm
          > Val(status).settings.weekly_precip_unsafe_mm
    /\ Val(status).settings.safe_days_threshold
          < Val(status).settings.caution_days_threshold
    /\ Val(status).jobs = "UNSAFE" /\ Val(status).api = "CAUTION"
    /\ Val(days_since_rain) > 0 /\ total_7_days_mm < MaxTotal
\* C37: for a crag none of whose rows is dated later than today - 5, the
\* days_since_rain of _calculate_for_crag is null or at least 5, and the
\* status calculate_all assigns and commits is UNSAFE when the total of the
\* rows at most 12 days old is 25 mm or more, CAUTION when it is 10 mm or more
\* and SAFE otherwise
FromIngestor(id) == \A r \in precip : r.area_id = id => r.recorded_at <= Today - 5
RECURSIVE SumMm(_)
SumMm(rows) ==
    IF rows = {} THEN 0
    ELSE LET r == CHOOSE x \in rows : TRUE
         IN  r.precipitation_mm + SumMm(rows \ {r})
TotalOf(id) ==
    SumMm({r \in precip : /\ r.area_id = id /\ r.recorded_at > Today - 19
                          /\ Today - r.recorded_at <= 12})
ByTotal(t) == IF t >= 2500 THEN "UNSAFE" ELSE IF t >= 1000 THEN "CAUTION" ELSE "SAFE"
HasRecords(id) == \E r \in precip : r.area_id = id /\ r.recorded_at > Today - 19
Committed == session # None /\ ~SessionOpen
SyncRunning == prog = "openbeta" /\ call # None /\ Val(call).outcome = "running"
IsPrefix(a, b) == Len(a) <= Len(b) /\ SubSeq(b, 1, Len(a)) = a
C38_NoFoundCragLost ==
    /\ [](prog = "openbeta" /\ call # None =>
            /\ stats.crags_found = stats.crags_upserted + Len(queue)
            /\ \A k \in 1..Len(queue) : Val(pages[queue[k]]).coords
            /\ Val(call).outcome = "returned" =>
                  /\ queue = <<>>
                  /\ stats.crags_upserted = stats.crags_found
            /\ Effective(max_areas) => stats.crags_found <= Val(max_areas))
    /\ [][SyncRunning =>
            /\ ~IsPrefix(queue, queue') =>
                  /\ queue' = <<>>
                  /\ logs'.batch_upserted = logs.batch_upserted + 1
                  /\ logs'.batch_upsert_failed = logs.batch_upsert_failed
                  /\ \A k \in 1..Len(queue) : CragRecord(queue[k]) \in areas'
                  /\ stats'.crags_upserted >= stats.crags_upserted + Len(queue)
            /\ logs'.batch_upsert_failed > logs.batch_upsert_failed =>
                  /\ IsPrefix(queue, queue') /\ queue' # <<>>
                  /\ areas' = areas
                  /\ stats'.crags_upserted = stats.crags_upserted]_vars
\* sync_all has returned normally with more than batch_size crags, all
\* upserted, after a batch write that failed
C38_ReturnedAfterFailedWrite ==
    /\ prog = "openbeta" /\ call # None /\ Val(call).outcome = "returned"
    /\ logs.batch_upsert_failed > 0 /\ logs.batch_upserted > 0
    /\ stats.crags_found > batch_size
    /\ stats.crags_upserted = stats.crags_found
    /\ \A i \in 2..Len(Listings) : CragRecord(i) \in areas
\* C39: over every table the crawl produces, a walk of get_area_breadcrumb,
\* build_location_path_slow or build_location_path_fast ends: it comes to no
\* row a second time (over a finite table a walk goes on for ever exactly
\* when it does), each row visited after the first is the parent the row
\* before it names, it stops at a row whose parent_id is null or names no
\* row, and what it returns runs from that root to the leaf
WalkEnded == prog = "breadcrumb" /\ call # None /\ Val(call).result # None
Ids(rows) == [k \in 1..Len(rows) |-> rows[k].id]
Names(rows) == [k \in 1..Len(rows) |-> rows[k].name]
C39_WalksTerminate ==
    (prog = "breadcrumb" /\ call # None) =>
        LET c == Val(call)
            seen == c.visited
            n == Len(seen)
        IN  /\ \A j, k \in 1..n : j # k => seen[j].id # seen[k].id
            /\ \A k \in 1..(n - 1) : seen[k].parent_id = Some(seen[k + 1].id)
            /\ n > 0 => seen[1].id = c.area_id
            /\ WalkEnded =>
                  /\ n > 0
                  /\ IF IsNone(seen[n].parent_id) THEN TRUE
                     ELSE RowsWithId(c.snapshot, Val(seen[n].parent_id)) = {}
                  /\ IF c.op = "get_area_breadcrumb"
                       THEN Ids(Val(c.result)) = Reverse(Ids(seen))
                       ELSE Val(c.result) =
                              IF n > 1
                                THEN Join(SubSeq(Reverse(Names(seen)), 1, n - 1))
                                ELSE Names(seen)
====
